---- MODULE Spec2Model ----
(***************************************************************************)
(* Guarded DDL subsystem of metabase-ai-assistant: the security policy of  *)
(* DirectDatabaseClient (validateDDL and its helpers), its executeDDL      *)
(* gate, the Metabase proxy path (MetabaseClient.executeNativeQuery), the  *)
(* handle cache of ConnectionManager and the DDL tool handlers of the MCP  *)
(* server.                                                                 *)
(*                                                                         *)
(* SQL text is a sequence of one-character strings, so that toUpperCase,   *)
(* trim, startsWith, includes, split and the regular expressions of the    *)
(* source are computed character by character, as the code computes them.  *)
(***************************************************************************)
EXTENDS Integers, Sequences, FiniteSets, TLC

VARIABLES
  connections,   \* ConnectionManager.connections: cache key -> handle id
  handles,       \* every handle object built so far, by identity (index)
  createdSince,  \* history: handles built per database id since its last eviction
  schema,        \* catalog of the target engine: set of [kind, name]
  inp,           \* the arguments and environment of the call being made
  call,          \* what the last completed call did and returned
  phase,         \* "ready" before the call of a one-call specification, "done" after
  session        \* MetabaseClient.sessionToken (0 is null), the tokens the BI
                 \* platform accepts, and the logins made so far

vars ==
  <<connections, handles, createdSince, schema, inp, call, phase, session>>

\* An option or argument the caller may leave out (undefined in the source)
\* is a field the record may lack.
Has(record, field) == field \in DOMAIN record

Optional(field, values) == {<<>>} \cup {field :> v : v \in values}

-----------------------------------------------------------------------------
(* Characters and strings                                                  *)

UpperMap ==
  ("a" :> "A") @@ ("b" :> "B") @@ ("c" :> "C") @@ ("d" :> "D") @@ ("e" :> "E") @@
  ("f" :> "F") @@ ("g" :> "G") @@ ("h" :> "H") @@ ("i" :> "I") @@ ("j" :> "J") @@
  ("k" :> "K") @@ ("l" :> "L") @@ ("m" :> "M") @@ ("n" :> "N") @@ ("o" :> "O") @@
  ("p" :> "P") @@ ("q" :> "Q") @@ ("r" :> "R") @@ ("s" :> "S") @@ ("t" :> "T") @@
  ("u" :> "U") @@ ("v" :> "V") @@ ("w" :> "W") @@ ("x" :> "X") @@ ("y" :> "Y") @@
  ("z" :> "Z")

\* String.prototype.toLowerCase, one character.
LowerMap ==
  [u \in {UpperMap[c] : c \in DOMAIN UpperMap} |->
     CHOOSE l \in DOMAIN UpperMap : UpperMap[l] = u]

\* String.prototype.toUpperCase: the letters a to z, one character at a time.
RECURSIVE ToUpperCase(_)
ToUpperCase(s) ==
  IF s = <<>> THEN <<>>
  ELSE <<IF Head(s) \in DOMAIN UpperMap THEN UpperMap[Head(s)] ELSE Head(s)>>
       \o ToUpperCase(Tail(s))

\* String.prototype.toLowerCase
RECURSIVE ToLowerCase(_)
ToLowerCase(s) ==
  IF s = <<>> THEN <<>>
  ELSE <<IF Head(s) \in DOMAIN LowerMap THEN LowerMap[Head(s)] ELSE Head(s)>>
       \o ToLowerCase(Tail(s))

\* \s of a regular expression, and the characters trim() removes.
IsSpace(c) == c \in {" ", "\n", "\t"}

Trim(s) ==
  LET keep == {i \in 1..Len(s) : ~IsSpace(s[i])}
  IN  IF keep = {} THEN <<>>
      ELSE SubSeq(s, CHOOSE i \in keep : \A j \in keep : i <= j,
                     CHOOSE i \in keep : \A j \in keep : i >= j)

StartsWith(s, p) == Len(p) <= Len(s) /\ SubSeq(s, 1, Len(p)) = p

Includes(s, p) ==
  \E i \in 0..(Len(s) - Len(p)) : SubSeq(s, i + 1, i + Len(p)) = p

\* parts[parts.length - 1] of fullName.split('.')
LastDotPart(fullName) ==
  LET dots == {i \in 1..Len(fullName) : fullName[i] = "."}
  IN  IF dots = {} THEN fullName
      ELSE SubSeq(fullName, (CHOOSE i \in dots : \A j \in dots : i >= j) + 1,
                  Len(fullName))

-----------------------------------------------------------------------------
(* Literals of the source                                                  *)

PrefixDefault == <<"c", "l", "a", "u", "d", "e", "_", "a", "i", "_">>

\* The keywords of the SQL the system reads and writes.
Kw ==
  [Create |-> <<"C", "R", "E", "A", "T", "E">>,
   Table |-> <<"T", "A", "B", "L", "E">>,
   View |-> <<"V", "I", "E", "W">>,
   Materialized |-> <<"M", "A", "T", "E", "R", "I", "A", "L", "I", "Z", "E", "D">>,
   Unique |-> <<"U", "N", "I", "Q", "U", "E">>,
   Index |-> <<"I", "N", "D", "E", "X">>,
   Drop |-> <<"D", "R", "O", "P">>,
   If |-> <<"I", "F">>,
   Not |-> <<"N", "O", "T">>,
   Exists |-> <<"E", "X", "I", "S", "T", "S">>,
   Or |-> <<"O", "R">>,
   Replace |-> <<"R", "E", "P", "L", "A", "C", "E">>,
   Insert |-> <<"I", "N", "S", "E", "R", "T">>,
   Into |-> <<"I", "N", "T", "O">>,
   Update |-> <<"U", "P", "D", "A", "T", "E">>,
   Delete |-> <<"D", "E", "L", "E", "T", "E">>,
   From |-> <<"F", "R", "O", "M">>,
   CreateTable |-> <<"C", "R", "E", "A", "T", "E", " ", "T", "A", "B", "L", "E">>,
   CreateView |-> <<"C", "R", "E", "A", "T", "E", " ", "V", "I", "E", "W">>,
   CreateMaterializedView |-> <<"C", "R", "E", "A", "T", "E", " ", "M", "A", "T", "E", "R", "I", "A", "L", "I", "Z", "E", "D", " ", "V", "I", "E", "W">>,
   CreateIndex |-> <<"C", "R", "E", "A", "T", "E", " ", "I", "N", "D", "E", "X">>,
   CreateUniqueIndex |-> <<"C", "R", "E", "A", "T", "E", " ", "U", "N", "I", "Q", "U", "E", " ", "I", "N", "D", "E", "X">>,
   DropTable |-> <<"D", "R", "O", "P", " ", "T", "A", "B", "L", "E">>,
   DropView |-> <<"D", "R", "O", "P", " ", "V", "I", "E", "W">>,
   DropMaterializedView |-> <<"D", "R", "O", "P", " ", "M", "A", "T", "E", "R", "I", "A", "L", "I", "Z", "E", "D", " ", "V", "I", "E", "W">>,
   DropIndex |-> <<"D", "R", "O", "P", " ", "I", "N", "D", "E", "X">>,
   Select |-> <<"S", "E", "L", "E", "C", "T">>,
   DropDatabase |-> <<"D", "R", "O", "P", " ", "D", "A", "T", "A", "B", "A", "S", "E">>,
   DropSchema |-> <<"D", "R", "O", "P", " ", "S", "C", "H", "E", "M", "A">>,
   Truncate |-> <<"T", "R", "U", "N", "C", "A", "T", "E">>,
   AlterSystem |-> <<"A", "L", "T", "E", "R", " ", "S", "Y", "S", "T", "E", "M">>,
   CreateUser |-> <<"C", "R", "E", "A", "T", "E", " ", "U", "S", "E", "R">>,
   DropUser |-> <<"D", "R", "O", "P", " ", "U", "S", "E", "R">>,
   Grant |-> <<"G", "R", "A", "N", "T">>,
   Revoke |-> <<"R", "E", "V", "O", "K", "E">>]

\* The names, clauses and statements the calls of the model are made of.
Str ==
  [ClaudeAiTest |-> <<"c", "l", "a", "u", "d", "e", "_", "a", "i", "_", "t", "e", "s", "t">>,
   OtherTest |-> <<"o", "t", "h", "e", "r", "_", "t", "e", "s", "t">>,
   PublicClaudeAiTest |-> <<"p", "u", "b", "l", "i", "c", ".", "c", "l", "a", "u", "d", "e", "_", "a", "i", "_", "t", "e", "s", "t">>,
   PublicOtherTest |-> <<"p", "u", "b", "l", "i", "c", ".", "o", "t", "h", "e", "r", "_", "t", "e", "s", "t">>,
   ClaudeAiSchemaUsers |-> <<"c", "l", "a", "u", "d", "e", "_", "a", "i", "_", ".", "u", "s", "e", "r", "s">>,
   UpperClaudeAiTest |-> <<"C", "L", "A", "U", "D", "E", "_", "A", "I", "_", "T", "E", "S", "T">>,
   OldClaudeAiUsers |-> <<"o", "l", "d", "_", "c", "l", "a", "u", "d", "e", "_", "a", "i", "_", "u", "s", "e", "r", "s">>,
   Users |-> <<"u", "s", "e", "r", "s">>,
   Columns |-> <<" ", "(", "i", "d", " ", "i", "n", "t", ")">>,
   GrantDate |-> <<" ", "(", "g", "r", "a", "n", "t", "_", "d", "a", "t", "e", " ", "d", "a", "t", "e", ")">>,
   AsSelect |-> <<" ", "A", "S", " ", "S", "E", "L", "E", "C", "T", " ", "1">>,
   OnTable |-> <<" ", "O", "N", " ", "u", "s", "e", "r", "s", " ", "(", "i", "d", ")">>,
   SelectOne |-> <<"S", "E", "L", "E", "C", "T", " ", "1">>,
   SelectGrantDate |-> <<"s", "e", "l", "e", "c", "t", " ", "g", "r", "a", "n", "t", "_", "d", "a", "t", "e", " ", "f", "r", "o", "m", " ", "u", "s", "e", "r", "s">>,
   InsertUsers |-> <<"I", "N", "S", "E", "R", "T", " ", "I", "N", "T", "O", " ", "u", "s", "e", "r", "s", " ", "V", "A", "L", "U", "E", "S", " ", "(", "1", ")">>,
   UpdateUsers |-> <<"U", "P", "D", "A", "T", "E", " ", "u", "s", "e", "r", "s", " ", "S", "E", "T", " ", "i", "d", " ", "=", " ", "1">>,
   DeleteUsers |-> <<"D", "E", "L", "E", "T", "E", " ", "F", "R", "O", "M", " ", "u", "s", "e", "r", "s">>,
   Truncate |-> <<"T", "R", "U", "N", "C", "A", "T", "E", " ", "T", "A", "B", "L", "E", " ", "c", "l", "a", "u", "d", "e", "_", "a", "i", "_", "t", "e", "s", "t">>,
   Grant |-> <<"G", "R", "A", "N", "T", " ", "A", "L", "L", " ", "O", "N", " ", "c", "l", "a", "u", "d", "e", "_", "a", "i", "_", "t", "e", "s", "t", " ", "T", "O", " ", "P", "U", "B", "L", "I", "C">>,
   Revoke |-> <<"R", "E", "V", "O", "K", "E", " ", "A", "L", "L", " ", "O", "N", " ", "c", "l", "a", "u", "d", "e", "_", "a", "i", "_", "t", "e", "s", "t", " ", "F", "R", "O", "M", " ", "P", "U", "B", "L", "I", "C">>,
   DropDatabase |-> <<"D", "R", "O", "P", " ", "D", "A", "T", "A", "B", "A", "S", "E", " ", "c", "l", "a", "u", "d", "e", "_", "a", "i", "_", "t", "e", "s", "t">>,
   DropSchema |-> <<"D", "R", "O", "P", " ", "S", "C", "H", "E", "M", "A", " ", "c", "l", "a", "u", "d", "e", "_", "a", "i", "_", "t", "e", "s", "t">>,
   AlterSystem |-> <<"A", "L", "T", "E", "R", " ", "S", "Y", "S", "T", "E", "M", " ", "S", "E", "T", " ", "f", "s", "y", "n", "c", " ", "=", " ", "o", "f", "f">>,
   CreateUser |-> <<"C", "R", "E", "A", "T", "E", " ", "U", "S", "E", "R", " ", "c", "l", "a", "u", "d", "e", "_", "a", "i", "_", "t", "e", "s", "t">>,
   DropUser |-> <<"D", "R", "O", "P", " ", "U", "S", "E", "R", " ", "c", "l", "a", "u", "d", "e", "_", "a", "i", "_", "t", "e", "s", "t">>,
   Explain |-> <<"E", "X", "P", "L", "A", "I", "N", " ", "S", "E", "L", "E", "C", "T", " ", "1">>,
   AlterTable |-> <<"A", "L", "T", "E", "R", " ", "T", "A", "B", "L", "E", " ", "u", "s", "e", "r", "s", " ", "A", "D", "D", " ", "C", "O", "L", "U", "M", "N", " ", "c", " ", "i", "n", "t">>,
   DeleteTruncateComment |-> <<"D", "E", "L", "E", "T", "E", " ", "F", "R", "O", "M", " ", "c", "l", "a", "u", "d", "e", "_", "a", "i", "_", "t", "e", "s", "t", " ", "-", "-", " ", "t", "r", "u", "n", "c", "a", "t", "e">>,
   Masked |-> <<"*", "*", "M", "e", "t", "a", "b", "a", "s", "e", "P", "a", "s", "s", "*", "*">>,
   Secret |-> <<"s", "3", "c", "r", "e", "t">>,
   Test |-> <<"t", "e", "s", "t">>,
   Public |-> <<"p", "u", "b", "l", "i", "c">>,
   Dot |-> <<".">>,
   Space |-> <<" ">>,
   Open |-> <<" ", "(">>,
   Close |-> <<")">>,
   As |-> <<" ", "A", "S", " ">>,
   On |-> <<" ", "O", "N", " ">>,
   IdInt |-> <<"i", "d", " ", "i", "n", "t">>,
   Id |-> <<"i", "d">>,
   Table |-> <<"t", "a", "b", "l", "e">>,
   View |-> <<"v", "i", "e", "w">>,
   MaterializedView |-> <<"m", "a", "t", "e", "r", "i", "a", "l", "i", "z", "e", "d", "_", "v", "i", "e", "w">>,
   Index |-> <<"i", "n", "d", "e", "x">>,
   DropSp |-> <<"D", "R", "O", "P", " ">>,
   IfExists |-> <<" ", "I", "F", " ", "E", "X", "I", "S", "T", "S", " ">>,
   UniqueSp |-> <<"U", "N", "I", "Q", "U", "E", " ">>,
   CreateSp |-> <<"C", "R", "E", "A", "T", "E", " ">>,
   IndexSp |-> <<"I", "N", "D", "E", "X", " ">>,
   ClaudeAiView |-> <<"c", "l", "a", "u", "d", "e", "_", "a", "i", "_", "v">>,
   ClaudeAiMatview |-> <<"c", "l", "a", "u", "d", "e", "_", "a", "i", "_", "m">>,
   ClaudeAiIndex |-> <<"c", "l", "a", "u", "d", "e", "_", "a", "i", "_", "i">>,
   ClaudexaiTest |-> <<"c", "l", "a", "u", "d", "e", "x", "a", "i", "_", "t", "e", "s", "t">>,
   Percent |-> <<"%">>,
   AnyUnderscoreId |-> <<"%", "_", "i", "d">>,
   UnderscoreId |-> <<"_", "i", "d">>,
   Orders |-> <<"o", "r", "d", "e", "r", "s">>,
   Customers |-> <<"c", "u", "s", "t", "o", "m", "e", "r", "s">>,
   Customer |-> <<"c", "u", "s", "t", "o", "m", "e", "r">>,
   Items |-> <<"i", "t", "e", "m", "s">>,
   CustomerId |-> <<"c", "u", "s", "t", "o", "m", "e", "r", "_", "i", "d">>,
   CustomersRef |-> <<"c", "u", "s", "t", "o", "m", "e", "r", "s", "_", "r", "e", "f">>,
   Sku |-> <<"s", "k", "u">>,
   Total |-> <<"t", "o", "t", "a", "l">>,
   Hidden |-> <<"*", "*", "*", "H", "I", "D", "D", "E", "N", "*", "*", "*">>,
   Hunter |-> <<"h", "u", "n", "t", "e", "r", "2">>,
   PostgresqlScheme |-> <<"p", "o", "s", "t", "g", "r", "e", "s", "q", "l", ":", "/", "/">>,
   MysqlScheme |-> <<"m", "y", "s", "q", "l", ":", "/", "/">>,
   Colon |-> <<":">>,
   At |-> <<"@">>,
   Slash |-> <<"/">>,
   Undefined |-> <<"u", "n", "d", "e", "f", "i", "n", "e", "d">>,
   Null |-> <<"n", "u", "l", "l">>,
   App |-> <<"a", "p", "p">>,
   Host |-> <<"d", "b", "1">>,
   Port |-> <<"5", "4", "3", "2">>,
   Shop |-> <<"s", "h", "o", "p">>,
   Warehouse |-> <<"w", "a", "r", "e", "h", "o", "u", "s", "e">>]

-----------------------------------------------------------------------------
(* The security policy of DirectDatabaseClient                             *)

CreateTypes ==
  {"CREATE_TABLE", "CREATE_VIEW", "CREATE_MATERIALIZED_VIEW", "CREATE_INDEX"}

DropTypes ==
  {"DROP_TABLE", "DROP_VIEW", "DROP_MATERIALIZED_VIEW", "DROP_INDEX"}

DmlTypes == {"SELECT", "INSERT", "UPDATE", "DELETE"}

\* options.allowedOperations when the caller passes none.
DefaultAllowedOperations == CreateTypes \cup DropTypes \cup DmlTypes

\* An extractOperationType that knows no CREATE UNIQUE INDEX: property C8
\* tells it from the real one.
ExtractOperationTypeNoUnique(sql) ==
  IF StartsWith(sql, Kw.CreateTable) THEN "CREATE_TABLE"
  ELSE IF StartsWith(sql, Kw.CreateView) THEN "CREATE_VIEW"
  ELSE IF StartsWith(sql, Kw.CreateMaterializedView) THEN "CREATE_MATERIALIZED_VIEW"
  ELSE IF StartsWith(sql, Kw.CreateIndex) THEN "CREATE_INDEX"
  ELSE IF StartsWith(sql, Kw.DropTable) THEN "DROP_TABLE"
  ELSE IF StartsWith(sql, Kw.DropView) THEN "DROP_VIEW"
  ELSE IF StartsWith(sql, Kw.DropMaterializedView) THEN "DROP_MATERIALIZED_VIEW"
  ELSE IF StartsWith(sql, Kw.DropIndex) THEN "DROP_INDEX"
  ELSE IF StartsWith(sql, Kw.Select) THEN "SELECT"
  ELSE IF StartsWith(sql, Kw.Insert) THEN "INSERT"
  ELSE IF StartsWith(sql, Kw.Update) THEN "UPDATE"
  ELSE IF StartsWith(sql, Kw.Delete) THEN "DELETE"
  ELSE "UnsupportedOperation"

\* extractOperationType(sql), sql being the uppercased and trimmed statement;
\* "UnsupportedOperation" stands for the thrown 'Unsupported operation type'.
ExtractOperationType(sql) ==
  IF StartsWith(sql, Kw.CreateTable) THEN "CREATE_TABLE"
  ELSE IF StartsWith(sql, Kw.CreateView) THEN "CREATE_VIEW"
  ELSE IF StartsWith(sql, Kw.CreateMaterializedView) THEN "CREATE_MATERIALIZED_VIEW"
  ELSE IF StartsWith(sql, Kw.CreateIndex) \/ StartsWith(sql, Kw.CreateUniqueIndex)
       THEN "CREATE_INDEX"
  ELSE IF StartsWith(sql, Kw.DropTable) THEN "DROP_TABLE"
  ELSE IF StartsWith(sql, Kw.DropView) THEN "DROP_VIEW"
  ELSE IF StartsWith(sql, Kw.DropMaterializedView) THEN "DROP_MATERIALIZED_VIEW"
  ELSE IF StartsWith(sql, Kw.DropIndex) THEN "DROP_INDEX"
  ELSE IF StartsWith(sql, Kw.Select) THEN "SELECT"
  ELSE IF StartsWith(sql, Kw.Insert) THEN "INSERT"
  ELSE IF StartsWith(sql, Kw.Update) THEN "UPDATE"
  ELSE IF StartsWith(sql, Kw.Delete) THEN "DELETE"
  ELSE "UnsupportedOperation"

RequiresPrefix(operationType) == operationType \in CreateTypes \cup DropTypes

\* The pieces of the regular expressions of extractObjectName: a keyword
\* (matched without regard to case, flag i), \s+, an optional group (?:...)?
\* and the capture ([\w\.]+).
Lit(w) == [t |-> "lit", w |-> w]

Ws == [t |-> "ws"]

Opt(p) == [t |-> "opt", p |-> p]

NameCapture == [t |-> "name"]

NoMatch == [ok |-> FALSE, name |-> <<>>]

\* Match the pattern pat against s from position pos on; up is ToUpperCase(s).
\* \s+ and [\w\.]+ are greedy; an optional group is tried first and skipped
\* when the rest does not match with it (backtracking).
RECURSIVE MatchAt(_, _, _, _)
MatchAt(s, up, pat, pos) ==
  IF pat = <<>> THEN [ok |-> TRUE, name |-> <<>>]
  ELSE
    LET item == Head(pat)
        rest == Tail(pat)
    IN  CASE item.t = "lit" ->
               IF pos + Len(item.w) - 1 <= Len(s)
                  /\ SubSeq(up, pos, pos + Len(item.w) - 1) = item.w
               THEN MatchAt(s, up, rest, pos + Len(item.w))
               ELSE NoMatch
          [] item.t = "ws" ->
               LET stop == {i \in pos..(Len(s) + 1) : i = Len(s) + 1 \/ ~IsSpace(s[i])}
                   next == CHOOSE i \in stop : \A j \in stop : i <= j
               IN  IF next = pos THEN NoMatch ELSE MatchAt(s, up, rest, next)
          [] item.t = "opt" ->
               LET with == MatchAt(s, up, item.p \o rest, pos)
               IN  IF with.ok THEN with ELSE MatchAt(s, up, rest, pos)
          [] item.t = "name" ->
               \* [\w\.]: letters, digits, underscore and the dot
               LET stop == {i \in pos..(Len(s) + 1) :
                              \/ i = Len(s) + 1
                              \/ s[i] \notin DOMAIN UpperMap \cup DOMAIN LowerMap
                                    \cup {"0", "1", "2", "3", "4", "5", "6", "7",
                                          "8", "9", "_", "."}}
                   next == CHOOSE i \in stop : \A j \in stop : i <= j
               IN  IF next = pos THEN NoMatch
                   ELSE [ok |-> TRUE, name |-> SubSeq(s, pos, next - 1)]

\* The match that starts at the least of the positions starts.
FirstMatch(s, up, pat, starts) ==
  IF starts = {} THEN NoMatch
  ELSE MatchAt(s, up, pat, CHOOSE i \in starts : \A j \in starts : i <= j)

MatchLeftmost(s, up, pat) ==
  FirstMatch(s, up, pat, {i \in 1..Len(s) : MatchAt(s, up, pat, i).ok})

\* sql.match(pattern) of an unanchored pattern: the leftmost match.
RegexMatch(s, pat) == MatchLeftmost(s, ToUpperCase(s), pat)

IfExists == Opt(<<Lit(Kw.If), Ws, Lit(Kw.Exists), Ws>>)

\* The pattern extractObjectName selects for an operation type.
NamePattern(operationType) ==
  CASE operationType = "CREATE_TABLE" ->
         <<Lit(Kw.Create), Ws, Lit(Kw.Table), Ws,
           Opt(<<Lit(Kw.If), Ws, Lit(Kw.Not), Ws, Lit(Kw.Exists), Ws>>),
           NameCapture>>
    [] operationType = "CREATE_VIEW" ->
         <<Lit(Kw.Create), Ws, Opt(<<Lit(Kw.Or), Ws, Lit(Kw.Replace), Ws>>),
           Lit(Kw.View), Ws, NameCapture>>
    [] operationType = "CREATE_MATERIALIZED_VIEW" ->
         <<Lit(Kw.Create), Ws, Lit(Kw.Materialized), Ws, Lit(Kw.View), Ws, NameCapture>>
    [] operationType = "CREATE_INDEX" ->
         <<Lit(Kw.Create), Ws, Opt(<<Lit(Kw.Unique), Ws>>), Lit(Kw.Index), Ws,
           Opt(<<Lit(Kw.If), Ws, Lit(Kw.Not), Ws, Lit(Kw.Exists), Ws>>),
           NameCapture>>
    [] operationType = "DROP_TABLE" ->
         <<Lit(Kw.Drop), Ws, Lit(Kw.Table), Ws, IfExists, NameCapture>>
    [] operationType = "DROP_VIEW" ->
         <<Lit(Kw.Drop), Ws, Lit(Kw.View), Ws, IfExists, NameCapture>>
    [] operationType = "DROP_MATERIALIZED_VIEW" ->
         <<Lit(Kw.Drop), Ws, Lit(Kw.Materialized), Ws, Lit(Kw.View), Ws, IfExists,
           NameCapture>>
    [] operationType = "DROP_INDEX" ->
         <<Lit(Kw.Drop), Ws, Lit(Kw.Index), Ws, IfExists, NameCapture>>

\* parts[parts.length - 1] of the captured identifier.
UnqualifiedName(match) ==
  IF match.ok THEN [ok |-> TRUE, name |-> LastDotPart(match.name)] ELSE NoMatch

\* extractObjectName(sql, operationType): ok is FALSE for the thrown 'Could not
\* extract object name from SQL'; otherwise name is the last dot-separated
\* part of the captured identifier.
ExtractObjectName(sql, operationType) ==
  UnqualifiedName(RegexMatch(sql, NamePattern(operationType)))

\* The deny-list of checkDangerousOperations, in its order.
Dangerous ==
  <<Kw.DropDatabase, Kw.DropSchema, Kw.Truncate, Kw.AlterSystem, Kw.CreateUser,
    Kw.DropUser, Kw.Grant, Kw.Revoke>>

\* A scan that looks for the deny-listed keywords at the start of the
\* statement only: property C6 tells it from the real one.
CheckDangerousLeading(sql) ==
  \E i \in 1..Len(Dangerous) : StartsWith(sql, Dangerous[i])

\* checkDangerousOperations(sql) throws: some deny-listed keyword is a
\* substring of the uppercased statement.
CheckDangerousOperations(sql) ==
  \E i \in 1..Len(Dangerous) : Includes(sql, Dangerous[i])

\* What validateDDL decided: the error it threw ("none" when the statement
\* passed), and the operation type and object name it worked on.
Validation(error, operationType, objectName) ==
  [error |-> error, operationType |-> operationType, objectName |-> objectName]

\* validateDDL, step 3: the dangerous-keyword scan.
ValidateDangerous(upperSQL, operationType, objectName) ==
  IF CheckDangerousOperations(upperSQL)
  THEN Validation("DangerousOperation", operationType, objectName)
  ELSE Validation("none", operationType, objectName)

\* Step 2 without the prefix test: property C5 tells it from the real one.
ValidateAnyName(upperSQL, operationType, extracted, options) ==
  IF ~extracted.ok THEN Validation("NameExtractionError", operationType, <<>>)
  ELSE ValidateDangerous(upperSQL, operationType, extracted.name)

\* validateDDL, step 2: the prefix check on the extracted object name.
ValidatePrefix(upperSQL, operationType, extracted, options) ==
  IF ~extracted.ok THEN Validation("NameExtractionError", operationType, <<>>)
  ELSE IF ~StartsWith(extracted.name, options.prefix)
       THEN Validation("PrefixViolation", operationType, extracted.name)
  ELSE ValidateDangerous(upperSQL, operationType, extracted.name)

\* Step 1 without the allowedOperations test: property C7 tells it from the
\* real one.
ValidateAnyOperation(sql, upperSQL, operationType, options) ==
  IF operationType = "UnsupportedOperation"
  THEN Validation("UnsupportedOperation", "none", <<>>)
  ELSE IF RequiresPrefix(operationType)
       THEN ValidatePrefix(upperSQL, operationType,
                           ExtractObjectName(sql, operationType), options)
  ELSE ValidateDangerous(upperSQL, operationType, <<>>)

\* A validateDDL that checks the prefix before allowedOperations: property
\* C23 tells it from the real one.
ValidatePrefixFirst(sql, upperSQL, operationType, options) ==
  IF operationType = "UnsupportedOperation"
  THEN Validation("UnsupportedOperation", "none", <<>>)
  ELSE IF RequiresPrefix(operationType)
          /\ ~StartsWith(ExtractObjectName(sql, operationType).name, options.prefix)
       THEN Validation("PrefixViolation", operationType,
                       ExtractObjectName(sql, operationType).name)
  ELSE IF operationType \notin options.allowedOperations
       THEN Validation("OperationNotAllowed", operationType, <<>>)
  ELSE IF RequiresPrefix(operationType)
       THEN ValidatePrefix(upperSQL, operationType,
                           ExtractObjectName(sql, operationType), options)
  ELSE ValidateDangerous(upperSQL, operationType, <<>>)

\* validateDDL, step 1: the operation type and the allowedOperations check.
ValidateOperation(sql, upperSQL, operationType, options) ==
  IF operationType = "UnsupportedOperation"
  THEN Validation("UnsupportedOperation", "none", <<>>)
  ELSE IF operationType \notin options.allowedOperations
       THEN Validation("OperationNotAllowed", operationType, <<>>)
  ELSE IF RequiresPrefix(operationType)
       THEN ValidatePrefix(upperSQL, operationType,
                           ExtractObjectName(sql, operationType), options)
  ELSE ValidateDangerous(upperSQL, operationType, <<>>)

ValidateUpper(sql, upperSQL, options) ==
  ValidateOperation(sql, upperSQL, ExtractOperationType(upperSQL), options)

\* Steps 1 to 3 of validateDDL(sql) under the client's options: the checks
\* run in the order of the source and the first failing one throws.
ValidateDDL(sql, options) == ValidateUpper(sql, Trim(ToUpperCase(sql)), options)

-----------------------------------------------------------------------------
(* Statements given to the system                                          *)

\* The leading keywords of the statements, word by word.
VerbWords(verb) ==
  CASE verb = "CREATE_TABLE" -> <<Kw.Create, Kw.Table>>
    [] verb = "CREATE_VIEW" -> <<Kw.Create, Kw.View>>
    [] verb = "CREATE_OR_REPLACE_VIEW" -> <<Kw.Create, Kw.Or, Kw.Replace, Kw.View>>
    [] verb = "CREATE_MATERIALIZED_VIEW" -> <<Kw.Create, Kw.Materialized, Kw.View>>
    [] verb = "CREATE_INDEX" -> <<Kw.Create, Kw.Index>>
    [] verb = "CREATE_UNIQUE_INDEX" -> <<Kw.Create, Kw.Unique, Kw.Index>>
    [] verb = "DROP_TABLE" -> <<Kw.Drop, Kw.Table>>
    [] verb = "DROP_VIEW" -> <<Kw.Drop, Kw.View>>
    [] verb = "DROP_MATERIALIZED_VIEW" -> <<Kw.Drop, Kw.Materialized, Kw.View>>
    [] verb = "DROP_INDEX" -> <<Kw.Drop, Kw.Index>>

DdlVerbs ==
  {"CREATE_TABLE", "CREATE_VIEW", "CREATE_OR_REPLACE_VIEW",
   "CREATE_MATERIALIZED_VIEW", "CREATE_INDEX", "CREATE_UNIQUE_INDEX",
   "DROP_TABLE", "DROP_VIEW", "DROP_MATERIALIZED_VIEW", "DROP_INDEX"}

RECURSIVE Join(_, _)
Join(words, sep) ==
  IF Len(words) = 1 THEN words[1]
  ELSE words[1] \o sep \o Join(Tail(words), sep)

\* The keywords as a caller may write them: upper case with single spaces,
\* lower case, or with two spaces between the words.
Styled(words, style) ==
  CASE style = "upper" -> Join(words, <<" ">>)
    [] style = "lower" -> ToLowerCase(Join(words, <<" ">>))
    [] style = "spaced" -> Join(words, <<" ", " ">>)

ClauseText(clause) ==
  CASE clause = "none" -> <<>>
    [] clause = "IF_EXISTS" -> Kw.If \o <<" ">> \o Kw.Exists \o <<" ">>
    [] clause = "IF_NOT_EXISTS" ->
         Kw.If \o <<" ">> \o Kw.Not \o <<" ">> \o Kw.Exists \o <<" ">>

\* A CREATE or DROP statement, with the parts it was written from.
Stmt(lead, verb, style, clause, name, tail) ==
  [text |-> lead \o Styled(VerbWords(verb), style) \o <<" ">>
            \o ClauseText(clause) \o name \o tail,
   verb |-> verb, style |-> style, clause |-> clause, name |-> name]

\* Any other statement.
Other(verb, text) ==
  [text |-> text, verb |-> verb, style |-> "upper", clause |-> "none",
   name |-> <<>>]

Statements ==
  {Stmt(<<>>, v, "upper", "none", n, <<>>) :
     v \in DdlVerbs,
     n \in {Str.ClaudeAiTest, Str.OtherTest, Str.PublicClaudeAiTest,
            Str.PublicOtherTest, Str.ClaudeAiSchemaUsers, Str.UpperClaudeAiTest,
            Str.OldClaudeAiUsers, Str.Users}}
  \cup {Stmt(<<>>, v, "upper", c, n, <<>>) :
          v \in DdlVerbs, c \in {"IF_EXISTS", "IF_NOT_EXISTS"},
          n \in {Str.ClaudeAiTest, Str.OtherTest}}
  \cup {Stmt(<<>>, v, s, "none", n, <<>>) :
          v \in DdlVerbs, s \in {"lower", "spaced"},
          n \in {Str.ClaudeAiTest, Str.Users}}
  \cup {Stmt(l, v, "upper", "none", Str.PublicClaudeAiTest, <<>>) :
          l \in {<<" ">>, <<"\n", " ">>}, v \in DdlVerbs}
  \cup {Stmt(<<>>, v, "upper", "none", n, t) :
          v \in {"CREATE_TABLE", "CREATE_UNIQUE_INDEX", "DROP_TABLE"},
          n \in {Str.ClaudeAiTest, Str.Users},
          t \in {Str.Columns, Str.GrantDate, Str.AsSelect, Str.OnTable}}
  \cup {Other("SELECT", Str.SelectOne), Other("SELECT", Str.SelectGrantDate),
        Other("INSERT", Str.InsertUsers), Other("UPDATE", Str.UpdateUsers),
        Other("DELETE", Str.DeleteUsers), Other("DELETE", Str.DeleteTruncateComment),
        Other("OTHER", Str.Truncate), Other("OTHER", Str.Grant),
        Other("OTHER", Str.Revoke), Other("OTHER", Str.DropDatabase),
        Other("OTHER", Str.DropSchema), Other("OTHER", Str.AlterSystem),
        Other("OTHER", Str.CreateUser), Other("OTHER", Str.DropUser),
        Other("OTHER", Str.Explain), Other("OTHER", Str.AlterTable),
        Other("OTHER", <<>>)}

-----------------------------------------------------------------------------
(* The target engine (PostgreSQL or MySQL behind the connection)           *)

\* The engine's grammar of the statements the system sends: the keywords, any
\* whitespace between them, the optional existence clause, the object name.
EnginePattern(verb, kind, clause) ==
  (IF verb = "CREATE"
   THEN <<Lit(Kw.Create), Ws>>
        \o (CASE kind = "INDEX" -> <<Opt(<<Lit(Kw.Unique), Ws>>)>>
              [] kind = "VIEW" -> <<Opt(<<Lit(Kw.Or), Ws, Lit(Kw.Replace), Ws>>)>>
              [] OTHER -> <<>>)
   ELSE <<Lit(Kw.Drop), Ws>>)
  \o (CASE kind = "TABLE" -> <<Lit(Kw.Table)>>
        [] kind = "VIEW" -> <<Lit(Kw.View)>>
        [] kind = "MATERIALIZED_VIEW" -> <<Lit(Kw.Materialized), Ws, Lit(Kw.View)>>
        [] kind = "INDEX" -> <<Lit(Kw.Index)>>) \o <<Ws>>
  \o (IF ~clause THEN <<>>
      ELSE IF verb = "CREATE"
           THEN <<Lit(Kw.If), Ws, Lit(Kw.Not), Ws, Lit(Kw.Exists), Ws>>
           ELSE <<Lit(Kw.If), Ws, Lit(Kw.Exists), Ws>>)
  \o <<NameCapture>>

WritePatterns ==
  {<<Lit(Kw.Insert), Ws, Lit(Kw.Into), Ws, NameCapture>>,
   <<Lit(Kw.Update), Ws, NameCapture>>,
   <<Lit(Kw.Delete), Ws, Lit(Kw.From), Ws, NameCapture>>}

\* The object a name denotes: unquoted identifiers fold to lower case and the
\* schema qualifier is not part of the object's name.
ObjectOf(name) == ToLowerCase(LastDotPart(name))

Parsed(verb, kind, clause, name) ==
  [verb |-> verb, kind |-> kind, clause |-> clause, name |-> name]

\* A CREATE or DROP of the form f: the object it names.
EngineDDL(t, up, f) ==
  Parsed(f.verb, f.kind, f.clause,
         ObjectOf(MatchAt(t, up, EnginePattern(f.verb, f.kind, f.clause), 1).name))

\* The text read with the existence clause when it has one.
EngineChoose(t, up, ddl, writes) ==
  IF \E f \in ddl : f.clause THEN EngineDDL(t, up, CHOOSE f \in ddl : f.clause)
  ELSE IF ddl # {} THEN EngineDDL(t, up, CHOOSE f \in ddl : TRUE)
  ELSE IF writes # {}
  THEN Parsed("WRITE", "TABLE", FALSE,
              ObjectOf(MatchAt(t, up, CHOOSE p \in writes : TRUE, 1).name))
  ELSE IF StartsWith(up, Kw.Select) THEN Parsed("READ", "TABLE", FALSE, <<>>)
  ELSE Parsed("ERROR", "TABLE", FALSE, <<>>)

EngineParseText(t, up) ==
  EngineChoose(t, up,
    {f \in [verb : {"CREATE", "DROP"},
            kind : {"TABLE", "VIEW", "MATERIALIZED_VIEW", "INDEX"},
            clause : BOOLEAN] :
       MatchAt(t, up, EnginePattern(f.verb, f.kind, f.clause), 1).ok},
    {p \in WritePatterns : MatchAt(t, up, p, 1).ok})

EngineParseTrimmed(t) == EngineParseText(t, ToUpperCase(t))

\* What the engine understands the statement to be.
EngineParse(sql) == EngineParseTrimmed(Trim(sql))

\* The engine runs the parsed statement p on the catalog cat: ok is FALSE
\* when it reports an error; mutated holds the names of the objects it
\* created, dropped or wrote; rows tells a statement that returns rows.
\* IF [NOT] EXISTS turns the error of a name already taken, or of a missing
\* object, into a success that changes nothing; a DROP whose name denotes an
\* object of another kind is an error with IF EXISTS too ("is not a view").
EngineApply(cat, p) ==
  LET obj == [kind |-> p.kind, name |-> p.name]
      unchanged(ok) ==
        [ok |-> ok, schema |-> cat, mutated |-> {}, rows |-> p.verb = "READ"]
  IN  CASE p.verb = "CREATE" ->
             IF \A o \in cat : o.name # p.name
             THEN [ok |-> TRUE, schema |-> cat \cup {obj}, mutated |-> {p.name},
                   rows |-> FALSE]
             ELSE unchanged(p.clause)
        [] p.verb = "DROP" ->
             IF obj \in cat
             THEN [ok |-> TRUE, schema |-> cat \ {obj}, mutated |-> {p.name},
                   rows |-> FALSE]
             ELSE IF \E o \in cat : o.name = p.name THEN unchanged(FALSE)
             ELSE unchanged(p.clause)
        [] p.verb = "WRITE" ->
             IF [kind |-> "TABLE", name |-> p.name] \in cat
             THEN [ok |-> TRUE, schema |-> cat, mutated |-> {p.name},
                   rows |-> FALSE]
             ELSE unchanged(FALSE)
        [] p.verb = "READ" -> unchanged(TRUE)
        [] OTHER -> unchanged(FALSE)

EngineExecute(cat, sql) == EngineApply(cat, EngineParse(sql))

\* The foreign objects of the target database.
ForeignCatalog ==
  {[kind |-> "TABLE", name |-> Str.Users],
   [kind |-> "TABLE", name |-> Str.OldClaudeAiUsers],
   [kind |-> "INDEX", name |-> Str.OtherTest]}

-----------------------------------------------------------------------------
(* DirectDatabaseClient                                                    *)

\* this.options as the constructor sets it from the options it is given.
NewClientOptions(options) ==
  [prefix |-> IF Has(options, "prefix") THEN options.prefix ELSE PrefixDefault,
   allowedOperations |->
     IF Has(options, "allowedOperations") THEN options.allowedOperations
     ELSE DefaultAllowedOperations,
   requireApproval |->
     ~(Has(options, "requireApproval") /\ options.requireApproval = FALSE),
   dryRun |-> Has(options, "dryRun") /\ options.dryRun]

\* What a call did: the error it threw ("none" when it returned), the kind of
\* result it returned, the statements it sent to the engine for execution,
\* the number of catalog lookups it made, the catalog afterwards and the
\* objects the engine changed.
Outcome(error, response, sent, lookups, cat, mutated, v) ==
  [error |-> error, response |-> response, sent |-> sent, lookups |-> lookups,
   schema |-> cat, mutated |-> mutated, validation |-> v.error,
   operationType |-> v.operationType, objectName |-> v.objectName]

NotValidated == Validation("none", "none", <<>>)

\* checkObjectExists(objectName, operationType) on PostgreSQL: the catalog
\* view each DROP_* is looked up in, by the name as extracted;
\* information_schema.tables lists the views as well as the tables.
CheckObjectExists(cat, operationType, objectName) ==
  \E o \in cat :
    /\ o.name = objectName
    /\ o.kind \in CASE operationType = "DROP_TABLE" -> {"TABLE", "VIEW"}
                   [] operationType = "DROP_VIEW" -> {"VIEW"}
                   [] operationType = "DROP_MATERIALIZED_VIEW" -> {"MATERIALIZED_VIEW"}
                   [] operationType = "DROP_INDEX" -> {"INDEX"}

\* A validateDropOperation that refuses to drop what does not exist:
\* property C18 tells it from the real one.
ValidateDropStrict(client, v, env, cat) ==
  IF v.error = "none" /\ v.operationType \in DropTypes /\ client.engine = "postgres"
  THEN [lookups |-> 1,
        error |-> IF env.lookupFails THEN "QueryError"
                  ELSE IF ~CheckObjectExists(cat, v.operationType, v.objectName)
                  THEN "ObjectNotFound" ELSE "none",
        warned |-> ~env.lookupFails
                   /\ ~CheckObjectExists(cat, v.operationType, v.objectName)]
  ELSE [lookups |-> 0, error |-> "none", warned |-> FALSE]

\* validateDropOperation and checkObjectExists, step 4 of validateDDL for a
\* DROP_* statement: on PostgreSQL one catalog query, whose failure is thrown;
\* on MySQL no query. The answer is only logged: warned tells that the
\* object was reported missing.
ValidateDropOperation(client, v, env, cat) ==
  IF v.error = "none" /\ v.operationType \in DropTypes /\ client.engine = "postgres"
  THEN [lookups |-> 1, error |-> IF env.lookupFails THEN "QueryError" ELSE "none",
        warned |-> ~env.lookupFails
                   /\ ~CheckObjectExists(cat, v.operationType, v.objectName)]
  ELSE [lookups |-> 0, error |-> "none", warned |-> FALSE]

\* executeQuery(sql) on the live connection.
ExecuteQuery(sql, cat) == EngineExecute(cat, sql)

\* The end of executeDDL: the engine's answer r is returned, or thrown.
ExecuteReturn(sql, lookups, v, r) ==
  Outcome(IF r.ok THEN "none" ELSE "EngineError",
          IF r.ok THEN "result" ELSE "none",
          <<sql>>, lookups, r.schema, r.mutated, v)

\* An executeDDL without the approval gate: property C2 tells it from the
\* real one.
ExecuteUnapproved(client, sql, options, cat, v, drop) ==
  (IF v.error # "none" THEN Outcome(v.error, "none", <<>>, drop.lookups, cat, {}, v)
   ELSE IF drop.error # "none"
        THEN Outcome(drop.error, "none", <<>>, drop.lookups, cat, {}, v)
   ELSE IF client.options.dryRun
        THEN Outcome("none", "preview", <<>>, drop.lookups, cat, {}, v)
   ELSE ExecuteReturn(sql, drop.lookups, v, ExecuteQuery(sql, cat)))
    @@ [warned |-> drop.warned]

\* An executeDDL without the dry run gate: property C20 tells it from the
\* real one.
ExecuteIgnoringDryRun(client, sql, options, cat, v, drop) ==
  (IF v.error # "none" THEN Outcome(v.error, "none", <<>>, drop.lookups, cat, {}, v)
   ELSE IF drop.error # "none"
        THEN Outcome(drop.error, "none", <<>>, drop.lookups, cat, {}, v)
   ELSE IF client.options.requireApproval
           /\ ~(Has(options, "approved") /\ options.approved)
        THEN Outcome("ApprovalRequired", "none", <<>>, drop.lookups, cat, {}, v)
   ELSE ExecuteReturn(sql, drop.lookups, v, ExecuteQuery(sql, cat)))
    @@ [warned |-> drop.warned]

\* An executeDDL that looks at dryRun before the approval: property C24
\* tells it from the real one.
ExecuteDryRunFirst(client, sql, options, cat, v, drop) ==
  (IF v.error # "none" THEN Outcome(v.error, "none", <<>>, drop.lookups, cat, {}, v)
   ELSE IF drop.error # "none"
        THEN Outcome(drop.error, "none", <<>>, drop.lookups, cat, {}, v)
   ELSE IF client.options.dryRun
        THEN Outcome("none", "preview", <<>>, drop.lookups, cat, {}, v)
   ELSE IF client.options.requireApproval
           /\ ~(Has(options, "approved") /\ options.approved)
        THEN Outcome("ApprovalRequired", "none", <<>>, drop.lookups, cat, {}, v)
   ELSE ExecuteReturn(sql, drop.lookups, v, ExecuteQuery(sql, cat)))
    @@ [warned |-> drop.warned]

\* executeDDL after validateDDL: the approval gate, the dry run gate, the
\* execution.
ExecuteGates(client, sql, options, cat, v, drop) ==
  (IF v.error # "none" THEN Outcome(v.error, "none", <<>>, drop.lookups, cat, {}, v)
   ELSE IF drop.error # "none"
        THEN Outcome(drop.error, "none", <<>>, drop.lookups, cat, {}, v)
   ELSE IF client.options.requireApproval
           /\ ~(Has(options, "approved") /\ options.approved)
        THEN Outcome("ApprovalRequired", "none", <<>>, drop.lookups, cat, {}, v)
   ELSE IF client.options.dryRun
        THEN Outcome("none", "preview", <<>>, drop.lookups, cat, {}, v)
   ELSE ExecuteReturn(sql, drop.lookups, v, ExecuteQuery(sql, cat)))
    @@ [warned |-> drop.warned]

ExecuteValidated(client, sql, options, env, cat, v) ==
  ExecuteGates(client, sql, options, cat, v, ValidateDropOperation(client, v, env, cat))

\* executeDDL(sql, options) of a connected client on the catalog cat.
ExecuteDDL(client, sql, options, env, cat) ==
  ExecuteValidated(client, sql, options, env, cat,
                   ValidateDDL(sql, client.options))

-----------------------------------------------------------------------------
(* MetabaseClient, the proxy backend                                       *)

IsDDLUpper(upperSQL) ==
  \/ StartsWith(upperSQL, Kw.CreateTable)
  \/ StartsWith(upperSQL, Kw.CreateView)
  \/ StartsWith(upperSQL, Kw.CreateMaterializedView)
  \/ StartsWith(upperSQL, Kw.CreateIndex)
  \/ StartsWith(upperSQL, Kw.DropTable)
  \/ StartsWith(upperSQL, Kw.DropView)
  \/ StartsWith(upperSQL, Kw.DropMaterializedView)
  \/ StartsWith(upperSQL, Kw.DropIndex)

\* isDDLOperation(sql)
IsDDLOperation(sql) == IsDDLUpper(Trim(ToUpperCase(sql)))

MentionsDDL(upperSQL) ==
  \/ Includes(upperSQL, Kw.CreateTable)
  \/ Includes(upperSQL, Kw.CreateView)
  \/ Includes(upperSQL, Kw.CreateMaterializedView)
  \/ Includes(upperSQL, Kw.CreateIndex)
  \/ Includes(upperSQL, Kw.DropTable)
  \/ Includes(upperSQL, Kw.DropView)
  \/ Includes(upperSQL, Kw.DropMaterializedView)
  \/ Includes(upperSQL, Kw.DropIndex)

\* validateDDLPrefix(sql) returns (TRUE) or throws (FALSE).
ValidateDDLPrefix(sql) ==
  MentionsDDL(ToUpperCase(sql)) => Includes(ToLowerCase(sql), PrefixDefault)

\* What a request to the BI platform did: whether the engine executed the
\* statement, the error of the request, the catalog afterwards.
Reply(applied, error, cat, mutated) ==
  [applied |-> applied, error |-> error, schema |-> cat, mutated |-> mutated]

EndpointReply(mode, r) ==
  Reply(TRUE,
        IF ~r.ok THEN "EngineError"
        ELSE IF mode = "noResultSet" /\ ~r.rows THEN "NoResultSet"
        ELSE "none",
        r.schema, r.mutated)

\* One request to an endpoint of the BI platform that runs sql on the engine.
\* "down": the request fails before the engine sees the statement. "up": the
\* engine executes it and the request succeeds when the engine does.
\* "noResultSet": the engine executes it, and the request fails with 'Select
\* statement did not produce a ResultSet' when the statement succeeded
\* without returning rows.
Endpoint(mode, sql, cat) ==
  IF mode = "down" THEN Reply(FALSE, "RequestFailed", cat, {})
  ELSE EndpointReply(mode, EngineExecute(cat, sql))

\* runQuery(query): POST /api/dataset.
RunQuery(sql, env, cat) == Endpoint(env.secondary, sql, cat)

\* What executeNativeQuery did: the error it threw, whether the result carries
\* a warning, the statements the engine was given.
Native(error, warning, sent, cat, mutated) ==
  [error |-> error, warning |-> warning, sent |-> sent, schema |-> cat,
   mutated |-> mutated]

\* Catch branches without the 'did not produce a ResultSet' heuristic:
\* property C14 tells them from the real ones.
SecondEndpointThrows(sql, first, second) ==
  Native(second.error, FALSE,
         (IF first.applied THEN <<sql>> ELSE <<>>)
           \o (IF second.applied THEN <<sql>> ELSE <<>>),
         second.schema, first.mutated \cup second.mutated)

\* The catch branches of executeDDLOperation: the dataset endpoint after the
\* action endpoint failed, and the 'did not produce a ResultSet' heuristic.
SecondEndpoint(sql, first, second) ==
  Native(IF second.error \in {"none", "NoResultSet"} THEN "none" ELSE second.error,
         second.error = "NoResultSet",
         (IF first.applied THEN <<sql>> ELSE <<>>)
           \o (IF second.applied THEN <<sql>> ELSE <<>>),
         second.schema, first.mutated \cup second.mutated)

FirstEndpoint(sql, env, first) ==
  IF first.error = "none"
  THEN Native("none", FALSE, <<sql>>, first.schema, first.mutated)
  ELSE SecondEndpoint(sql, first, RunQuery(sql, env, first.schema))

\* executeDDLOperation(databaseId, sql): the action endpoint, then the dataset
\* endpoint.
ExecuteDDLOperation(sql, env, cat) ==
  FirstEndpoint(sql, env, Endpoint(env.primary, sql, cat))

PlainQuery(sql, r) ==
  Native(r.error, FALSE, IF r.applied THEN <<sql>> ELSE <<>>, r.schema, r.mutated)

NativeQuery(sql, options, env, cat, isDDL) ==
  IF ~(Has(options, "enforcePrefix") /\ options.enforcePrefix = FALSE)
     /\ isDDL /\ ~ValidateDDLPrefix(sql)
  THEN Native("PrefixViolation", FALSE, <<>>, cat, {})
  ELSE IF isDDL THEN ExecuteDDLOperation(sql, env, cat)
  ELSE PlainQuery(sql, RunQuery(sql, env, cat))

\* executeNativeQuery(databaseId, sql, options)
ExecuteNativeQuery(sql, options, env, cat) ==
  NativeQuery(sql, options, env, cat, IsDDLOperation(sql))

\* The result of the BI platform's client as the manager wraps it: result,
\* with the warning it may carry.
ProxyResult(r) ==
  Outcome(r.error, IF r.error = "none" THEN "result" ELSE "none",
          r.sent, 0, r.schema, r.mutated, NotValidated)
    @@ [warning |-> r.warning]

\* executeDDLViaProxy(client, databaseId, sql, options)
ExecuteDDLViaProxy(sql, options, env, cat) ==
  ProxyResult(ExecuteNativeQuery(sql, <<>>, env, cat))

-----------------------------------------------------------------------------
(* One executeOperation(handle, 'executeDDL', sql, options) call            *)

\* A handle as createDirectConnection and createProxyConnection build it; the
\* client of a direct handle is connected to the engine env.engine.
DirectHandle(engine, options) ==
  [type |-> "direct", engine |-> engine, options |-> NewClientOptions(options)]

\* One executeOperation(handle, 'executeDDL', sql, options) call. A direct
\* handle's client is constructed with any of the options and connected to
\* PostgreSQL or MySQL, the catalog lookup of a DROP succeeding or failing;
\* for a proxy handle each endpoint of the BI platform is up, down, or
\* reports a failure after the engine has run the statement.
DDLInputs ==
  {[op |-> "executeDDL", handle |-> DirectHandle(e.engine, c), stmt |-> s,
    options |-> o, env |-> e] :
     c \in {r @@ d : r \in Optional("requireApproval", {FALSE}),
                     d \in Optional("dryRun", {TRUE})}
           \cup Optional("allowedOperations",
                         {{}, DmlTypes \cup {"CREATE_TABLE", "DROP_INDEX"}}),
     s \in Statements,
     o \in Optional("approved", {TRUE}),
     e \in {[engine |-> g[1], lookupFails |-> g[2], primary |-> "up",
             secondary |-> "up"] :
              g \in {<<"postgres", FALSE>>, <<"postgres", TRUE>>, <<"mysql", FALSE>>}}}
  \cup
  {[op |-> "executeDDL", handle |-> [type |-> "proxy"], stmt |-> s,
    options |-> o,
    env |-> [engine |-> "postgres", lookupFails |-> FALSE, primary |-> p,
             secondary |-> q]] :
     s \in Statements, o \in Optional("approved", {TRUE}),
     p \in {"up", "down", "noResultSet"}, q \in {"up", "down", "noResultSet"}}

\* The target database holds foreign objects only, or also an object the
\* system owns.
InitDDL ==
  /\ connections = <<>>
  /\ handles = <<>>
  /\ createdSince = <<>>
  /\ schema \in {ForeignCatalog,
                 ForeignCatalog \cup {[kind |-> "TABLE", name |-> Str.ClaudeAiTest]}}
  /\ inp \in DDLInputs
  /\ call = Outcome("none", "none", <<>>, 0, {}, {}, NotValidated)
              @@ [before |-> {}]
  /\ phase = "ready"
  /\ session = [token |-> 0, valid |-> {}, logins |-> 0]

\* executeDirectOperation, case 'executeDDL'
ExecuteDirectOperation ==
  /\ phase = "ready"
  /\ inp.handle.type = "direct"
  /\ call' = ExecuteDDL(inp.handle, inp.stmt.text, inp.options, inp.env, schema)
              @@ [before |-> schema]
  /\ schema' = call'.schema
  /\ phase' = "done"
  /\ UNCHANGED <<connections, handles, createdSince, inp, session>>

\* executeProxyOperation, case 'executeDDL'
ExecuteProxyOperation ==
  /\ phase = "ready"
  /\ inp.handle.type = "proxy"
  /\ call' = ExecuteDDLViaProxy(inp.stmt.text, inp.options, inp.env, schema)
              @@ [before |-> schema]
  /\ schema' = call'.schema
  /\ phase' = "done"
  /\ UNCHANGED <<connections, handles, createdSince, inp, session>>

NextDDL == ExecuteDirectOperation \/ ExecuteProxyOperation

SpecDDL == InitDDL /\ [][NextDDL]_vars

-----------------------------------------------------------------------------
(* ConnectionManager: the handle cache                                     *)

\* Bounds of the model: the database ids in use and the handles ever built.
NumDbs == 2

MaxHandles == 3

DbIds == 1..NumDbs

\* `db_${databaseId}`
CacheKey(databaseId) == <<"db_", databaseId>>

\* A Map: has, get, set, delete.
EmptyMap == [k \in {} |-> 0]

MapSet(map, key, value) ==
  [k \in DOMAIN map \cup {key} |-> IF k = key THEN value ELSE map[k]]

\* The connection info getDatabaseConnectionInfo may return: the password is
\* missing, empty, masked by the BI platform, or the real one. What the
\* environment does during getConnection: whether fetching the connection
\* info fails, the info fetched, whether connect() fails (the parts of it a
\* call never reads are fixed).
ConnectionEnvs ==
  {e \in [fetchFails : BOOLEAN,
          info : {[engine |-> g] @@ p :
                    g \in {"postgres", "mysql"},
                    p \in Optional("password", {<<>>, Str.Masked, Str.Secret})},
          connectFails : BOOLEAN] :
     /\ e.fetchFails => e.info = [engine |-> "postgres"]
     /\ e.connectFails => ~e.fetchFails /\ Has(e.info, "password")
                                       /\ e.info.password = Str.Secret}

\* A test that knows the masked sentinel only: property C10 tells it from
\* the real one.
PasswordMasked(info) == Has(info, "password") /\ info.password = Str.Masked

\* The test of createDirectConnection that throws 'Password not available
\* from Metabase API'.
PasswordUnavailable(info) ==
  ~Has(info, "password") \/ info.password = Str.Masked \/ info.password = <<>>

\* createDirectConnection(metabaseClient, databaseId): the handle, or the
\* error thrown; fetched and opened count the connection infos fetched and
\* the engine connections opened.
CreateDirectConnection(databaseId, env) ==
  IF env.fetchFails
  THEN [error |-> "FetchError", fetched |-> 0, opened |-> 0]
  ELSE IF PasswordUnavailable(env.info)
  THEN [error |-> "CredentialsUnavailable", fetched |-> 1, opened |-> 0]
  ELSE IF env.connectFails
  THEN [error |-> "ConnectionError", fetched |-> 1, opened |-> 0]
  ELSE [error |-> "none", fetched |-> 1, opened |-> 1,
        handle |-> [type |-> "direct", databaseId |-> databaseId, live |-> TRUE,
                    engine |-> env.info.engine,
                    options |-> NewClientOptions(
                      [prefix |-> PrefixDefault, requireApproval |-> TRUE,
                       dryRun |-> FALSE])]]

\* createProxyConnection(metabaseClient, databaseId)
CreateProxyConnection(databaseId) ==
  [type |-> "proxy", databaseId |-> databaseId, live |-> FALSE]

\* this.fallbackMode, set by the constructor and never changed.
FallbackMode == TRUE

\* A cache that never answers: property C9 tells it from the real one.
CacheNever(conns, databaseId) == FALSE

\* this.connections.has(cacheKey)
CacheHit(conns, databaseId) == CacheKey(databaseId) \in DOMAIN conns

\* The miss path of getConnection once createDirectConnection has answered
\* with direct: the handle built is appended to hs and stored in the cache.
StoreConnection(conns, hs, databaseId, direct) ==
  IF direct.error = "none" \/ FallbackMode
  THEN [connections |-> MapSet(conns, CacheKey(databaseId), Len(hs) + 1),
        handles |-> Append(hs, IF direct.error = "none" THEN direct.handle
                               ELSE CreateProxyConnection(databaseId)),
        returned |-> Len(hs) + 1, hit |-> FALSE, error |-> "none",
        fetched |-> direct.fetched, opened |-> direct.opened,
        fallback |-> direct.error]
  ELSE [connections |-> conns, handles |-> hs, returned |-> 0, hit |-> FALSE,
        error |-> direct.error, fetched |-> direct.fetched,
        opened |-> direct.opened, fallback |-> "none"]

\* getConnection(metabaseClient, databaseId) as one uninterrupted call on the
\* cache conns and the handles hs.
GetConnectionCall(conns, hs, databaseId, env) ==
  IF CacheHit(conns, databaseId)
  THEN [connections |-> conns, handles |-> hs,
        returned |-> conns[CacheKey(databaseId)], hit |-> TRUE,
        error |-> "none", fetched |-> 0, opened |-> 0, fallback |-> "none"]
  ELSE StoreConnection(conns, hs, databaseId,
                       CreateDirectConnection(databaseId, env))

\* A disconnect that leaves the engine connection open: property C13 tells
\* it from the real one.
ClientKeepOpen(handle) == handle

\* DirectDatabaseClient.disconnect(): closes the connection if there is one.
ClientDisconnect(handle) == [handle EXCEPT !.live = FALSE]

\* The handles after disconnect(connection) of each handle in closing.
CloseAll(hs, closing) ==
  [h \in 1..Len(hs) |->
     IF h \in closing /\ hs[h].type = "direct" THEN ClientDisconnect(hs[h])
     ELSE hs[h]]

InitManager ==
  /\ connections = EmptyMap
  /\ handles = <<>>
  /\ createdSince = [d \in DbIds |-> 0]
  /\ schema = {}
  /\ inp = <<>>
  /\ call = [op |-> "none"]
  /\ phase = "ready"
  /\ session = [token |-> 0, valid |-> {}, logins |-> 0]

\* getConnection(metabaseClient, databaseId), calls not overlapping.
GetConnectionStep(databaseId, env, r) ==
  /\ connections' = r.connections
  /\ handles' = r.handles
  /\ createdSince' =
       [createdSince EXCEPT ![databaseId] = @ + Len(r.handles) - Len(handles)]
  /\ call' = [op |-> "getConnection", databaseId |-> databaseId, env |-> env,
              returned |-> r.returned, hit |-> r.hit, error |-> r.error,
              fetched |-> r.fetched, opened |-> r.opened,
              fallback |-> r.fallback]
  /\ UNCHANGED <<schema, inp, phase, session>>

GetConnection(databaseId) ==
  /\ Len(handles) < MaxHandles \/ CacheHit(connections, databaseId)
  \* a cache hit asks nothing of the environment
  /\ \E env \in IF CacheHit(connections, databaseId)
                THEN {[fetchFails |-> FALSE, info |-> [engine |-> "postgres"],
                       connectFails |-> FALSE]}
                ELSE ConnectionEnvs :
       GetConnectionStep(databaseId, env,
                         GetConnectionCall(connections, handles, databaseId, env))

\* disconnect(connection), connection being any handle a caller still holds.
Disconnect(h) ==
  /\ handles' = CloseAll(handles, {h})
  /\ connections' = [k \in DOMAIN connections \ {CacheKey(handles[h].databaseId)} |->
                       connections[k]]
  /\ createdSince' = [createdSince EXCEPT ![handles[h].databaseId] = 0]
  /\ call' = [op |-> "disconnect", handle |-> h,
              closed |-> IF handles[h].live THEN 1 ELSE 0,
              evicted |-> IF CacheHit(connections, handles[h].databaseId)
                          THEN connections[CacheKey(handles[h].databaseId)] ELSE 0]
  /\ UNCHANGED <<schema, inp, phase, session>>

\* disconnectAll()
DisconnectAll ==
  /\ handles' = CloseAll(handles, {connections[k] : k \in DOMAIN connections})
  /\ connections' = EmptyMap
  /\ createdSince' = [d \in DbIds |-> 0]
  /\ call' = [op |-> "disconnectAll",
              closed |-> Cardinality({k \in DOMAIN connections :
                                        handles[connections[k]].live})]
  /\ UNCHANGED <<schema, inp, phase, session>>

Next ==
  \/ \E d \in DbIds : GetConnection(d)
  \/ \E h \in 1..Len(handles) : Disconnect(h)
  \/ DisconnectAll

Spec == InitManager /\ [][Next]_vars

-----------------------------------------------------------------------------
(* The helpers that build a statement from a name                          *)

\* A prepend that does not look at the name: property C17 tells it from the
\* real one.
AlwaysPrefix(name, prefix) == prefix \o name

\* if (!name.startsWith(prefix)) name = prefix + name
WithPrefix(name, prefix) ==
  IF StartsWith(name, prefix) THEN name ELSE prefix \o name

\* schema ? `${schema}.${name}` : name, the schema being options.schema: no
\* client is constructed with a defaultSchema.
Qualified(options, name) ==
  IF Has(options, "schema") THEN options.schema \o Str.Dot \o name ELSE name

\* `CREATE TABLE ${fullTableName} (${columnsSQL})`
CreateTableSQL(fullTableName, columnsSQL) ==
  Kw.CreateTable \o Str.Space \o fullTableName \o Str.Open \o columnsSQL \o Str.Close

\* `CREATE VIEW ${fullViewName} AS ${selectSQL}`
CreateViewSQL(fullViewName, selectSQL) ==
  Kw.CreateView \o Str.Space \o fullViewName \o Str.As \o selectSQL

\* `CREATE MATERIALIZED VIEW ${fullViewName} AS ${selectSQL}`
CreateMaterializedViewSQL(fullViewName, selectSQL) ==
  Kw.CreateMaterializedView \o Str.Space \o fullViewName \o Str.As \o selectSQL

\* `CREATE ${unique}INDEX ${indexName} ON ${tableName} (${columnsStr})`
CreateIndexSQL(options, indexName, tableName, columnsStr) ==
  Str.CreateSp \o (IF Has(options, "unique") /\ options.unique THEN Str.UniqueSp ELSE <<>>)
  \o Str.IndexSp \o indexName \o Str.On \o tableName \o Str.Open \o columnsStr \o Str.Close

\* createTable(tableName, columns, options) of DirectDatabaseClient
CreateTable(client, tableName, columnsSQL, options, env, cat) ==
  ExecuteDDL(client,
             CreateTableSQL(Qualified(options, WithPrefix(tableName, client.options.prefix)),
                            columnsSQL),
             options, env, cat)

\* createView(viewName, selectSQL, options)
CreateView(client, viewName, selectSQL, options, env, cat) ==
  ExecuteDDL(client,
             CreateViewSQL(Qualified(options, WithPrefix(viewName, client.options.prefix)),
                           selectSQL),
             options, env, cat)

\* createMaterializedView(viewName, selectSQL, options)
CreateMaterializedView(client, viewName, selectSQL, options, env, cat) ==
  ExecuteDDL(client,
             CreateMaterializedViewSQL(
               Qualified(options, WithPrefix(viewName, client.options.prefix)),
               selectSQL),
             options, env, cat)

\* createIndex(indexName, tableName, columns, options)
CreateIndex(client, indexName, tableName, columnsStr, options, env, cat) ==
  ExecuteDDL(client,
             CreateIndexSQL(options, WithPrefix(indexName, client.options.prefix),
                            tableName, columnsStr),
             options, env, cat)

\* createTableViaProxy(client, databaseId, tableName, columns, options): the
\* options are not read.
CreateTableViaProxy(tableName, columnsSQL, options, env, cat) ==
  ProxyResult(ExecuteNativeQuery(
    CreateTableSQL(WithPrefix(tableName, PrefixDefault), columnsSQL), <<>>, env, cat))

\* createViewViaProxy(client, databaseId, viewName, selectSQL, options)
CreateViewViaProxy(viewName, selectSQL, options, env, cat) ==
  ProxyResult(ExecuteNativeQuery(
    CreateViewSQL(WithPrefix(viewName, PrefixDefault), selectSQL), <<>>, env, cat))

\* createMaterializedViewViaProxy(client, databaseId, viewName, selectSQL,
\* options)
CreateMaterializedViewViaProxy(viewName, selectSQL, options, env, cat) ==
  ProxyResult(ExecuteNativeQuery(
    CreateMaterializedViewSQL(WithPrefix(viewName, PrefixDefault), selectSQL),
    <<>>, env, cat))

\* createIndexViaProxy(client, databaseId, indexName, tableName, columns,
\* options)
CreateIndexViaProxy(indexName, tableName, columnsStr, options, env, cat) ==
  ProxyResult(ExecuteNativeQuery(
    CreateIndexSQL(options, WithPrefix(indexName, PrefixDefault), tableName,
                   columnsStr),
    <<>>, env, cat))

\* executeOperation(connection, 'createTable', tableName, columns, options)
ExecuteCreateTable(connection, tableName, columnsSQL, options, env, cat) ==
  IF connection.type = "direct"
  THEN CreateTable(connection, tableName, columnsSQL, options, env, cat)
  ELSE CreateTableViaProxy(tableName, columnsSQL, options, env, cat)

-----------------------------------------------------------------------------
(* The DDL tools of the MCP server                                         *)

\* What a tool call did: an Outcome with the kind of response the handler
\* returned, the error it threw, the SQL text a preview shows and the catalog
\* queries of the handler itself added.
ToolOutcome(response, error, text, lookups, o) ==
  [o EXCEPT !.response = response, !.error = error, !.lookups = @ + lookups]
  @@ [text |-> text]

Idle(cat) == Outcome("none", "none", <<>>, 0, cat, {}, NotValidated)

Thrown(error, cat) == ToolOutcome("none", error, <<>>, 0, Idle(cat))

\* The dry run branch of a handler: the preview text is its whole effect.
Preview(previewSQL, cat) == ToolOutcome("preview", "none", previewSQL, 0, Idle(cat))

\* The 'SCHEMA SELECTION REQUIRED' notice, after getSchemas() and
\* getCurrentSchema(), one catalog query each on PostgreSQL.
SchemaSelection(client, cat) ==
  ToolOutcome("schemaSelection", "none", <<>>,
              IF client.engine = "postgres" THEN 2 ELSE 0, Idle(cat))

\* The execute branch: the success text, or the error of the call rethrown.
Executed(o) ==
  ToolOutcome(IF o.error = "none" THEN "success" ELSE "none", o.error, <<>>, 0, o)

\* A dry run the caller has to ask for: property C3 tells it from the real
\* default.
DryRunOnRequest(args) == Has(args, "dry_run") /\ args.dry_run = TRUE

\* args.dry_run !== false
DryRun(args) == ~(Has(args, "dry_run") /\ args.dry_run = FALSE)

\* The options object built from the arguments named in fields.
PassedOptions(args, fields) == [f \in fields \cap DOMAIN args |-> args[f]]

\* s.replace(c, d): the first occurrence only.
ReplaceFirst(s, c, d) ==
  [i \in 1..Len(s) |->
     IF s[i] = c /\ \A j \in 1..(i - 1) : s[j] # c THEN d ELSE s[i]]

\* `DROP ${args.object_type.toUpperCase().replace('_', ' ')} IF EXISTS ${args.object_name}`
DropSQL(args) ==
  Str.DropSp \o ReplaceFirst(ToUpperCase(args.object_type), "_", " ")
  \o Str.IfExists \o args.object_name

\* handleCreateTableDirect(args) once getConnection has answered.
CreateTableDirect(connection, args, env, cat) ==
  IF ~Has(args, "schema") /\ connection.type = "direct"
  THEN SchemaSelection(connection, cat)
  ELSE IF DryRun(args)
  THEN Preview(CreateTableSQL(Qualified(args, PrefixDefault \o args.table_name),
                              args.columns), cat)
  ELSE Executed(ExecuteCreateTable(connection, args.table_name, args.columns,
                                   PassedOptions(args, {"approved", "schema"}),
                                   env, cat))

\* handleCreateViewDirect(args) once getConnection has answered; the first
\* branch is the throw of getDirectClient.
CreateViewDirect(connection, args, env, cat) ==
  IF connection.type # "direct" THEN Thrown("DirectRequired", cat)
  ELSE IF ~Has(args, "schema") THEN SchemaSelection(connection, cat)
  ELSE IF DryRun(args)
  THEN Preview(CreateViewSQL(Qualified(args, connection.options.prefix \o args.view_name),
                             args.select_sql), cat)
  ELSE Executed(CreateView(connection, args.view_name, args.select_sql,
                           PassedOptions(args, {"approved", "schema"}), env, cat))

\* handleCreateMaterializedViewDirect(args)
CreateMaterializedViewDirect(connection, args, env, cat) ==
  IF connection.type # "direct" THEN Thrown("DirectRequired", cat)
  ELSE IF connection.engine # "postgres" THEN Thrown("PostgresOnly", cat)
  ELSE IF ~Has(args, "schema") THEN SchemaSelection(connection, cat)
  ELSE IF DryRun(args)
  THEN Preview(CreateMaterializedViewSQL(
                 Qualified(args, connection.options.prefix \o args.view_name),
                 args.select_sql), cat)
  ELSE Executed(CreateMaterializedView(connection, args.view_name, args.select_sql,
                                       PassedOptions(args, {"approved", "schema"}),
                                       env, cat))

\* handleCreateIndexDirect(args)
CreateIndexDirect(connection, args, env, cat) ==
  IF connection.type # "direct" THEN Thrown("DirectRequired", cat)
  ELSE IF DryRun(args)
  THEN Preview(CreateIndexSQL(args, connection.options.prefix \o args.index_name,
                              args.table_name, args.columns), cat)
  ELSE Executed(CreateIndex(connection, args.index_name, args.table_name,
                            args.columns, PassedOptions(args, {"unique", "approved"}),
                            env, cat))

\* handleDropAIObject(args)
DropAIObject(connection, args, env, cat) ==
  IF connection.type # "direct" THEN Thrown("DirectRequired", cat)
  ELSE IF ~StartsWith(args.object_name, PrefixDefault)
  THEN Thrown("PrefixViolation", cat)
  ELSE IF DryRun(args) THEN Preview(DropSQL(args), cat)
  ELSE Executed(ExecuteDDL(connection, DropSQL(args),
                           PassedOptions(args, {"approved"}), env, cat))

\* The arguments of a tool call: dry_run, approved and schema are optional.
CommonArgs ==
  {[database_id |-> 1] @@ d @@ a :
     d \in Optional("dry_run", BOOLEAN), a \in Optional("approved", BOOLEAN)}

ToolCalls ==
  {[tool |-> "db_table_create",
    args |-> [table_name |-> n, columns |-> Str.IdInt] @@ s @@ c] :
     n \in {Str.Test, Str.ClaudeAiTest}, s \in Optional("schema", {Str.Public}), c \in CommonArgs}
  \cup
  {[tool |-> t, args |-> [view_name |-> n, select_sql |-> Str.SelectOne] @@ s @@ c] :
     t \in {"db_view_create", "db_matview_create"},
     n \in {Str.Test, Str.ClaudeAiTest}, s \in Optional("schema", {Str.Public}), c \in CommonArgs}
  \cup
  {[tool |-> "db_index_create",
    args |-> [index_name |-> n, table_name |-> Str.Users, columns |-> Str.Id] @@ u @@ c] :
     n \in {Str.Test, Str.ClaudeAiTest}, u \in Optional("unique", {TRUE}), c \in CommonArgs}
  \cup
  {[tool |-> "db_ai_drop", args |-> [object_name |-> n, object_type |-> t] @@ c] :
     n \in {Str.ClaudeAiTest, Str.Users},
     t \in {Str.Table, Str.View, Str.MaterializedView, Str.Index}, c \in CommonArgs}

\* One tool call. What the environment does during it: getConnection's part,
\* whether the catalog lookup of a DROP fails on a direct handle, and, for a
\* proxy handle (connection info with a masked password), how the endpoints
\* of the BI platform behave.
InitTools ==
  /\ connections = EmptyMap
  /\ handles = <<>>
  /\ createdSince = [d \in DbIds |-> 0]
  /\ schema \in {ForeignCatalog,
                 ForeignCatalog \cup {[kind |-> "TABLE", name |-> Str.ClaudeAiTest]}}
  /\ inp \in
       {c @@ [env |-> e] :
          c \in ToolCalls,
          e \in {g @@ [lookupFails |-> l, primary |-> "up", secondary |-> "up"] :
                   g \in ConnectionEnvs, l \in BOOLEAN}
                \cup
                {[fetchFails |-> FALSE,
                  info |-> [engine |-> "postgres", password |-> Str.Masked],
                  connectFails |-> FALSE, lookupFails |-> FALSE, primary |-> p,
                  secondary |-> s] :
                   p \in {"up", "down"}, s \in {"up", "down", "noResultSet"}}}
  /\ call = Idle({}) @@ [text |-> <<>>, before |-> {}, type |-> "none"]
  /\ phase = "ready"
  /\ session = [token |-> 0, valid |-> {}, logins |-> 0]

\* The state after a handler: g is what its getConnection did, r what the
\* rest of the handler did with the handle.
ToolStep(g, r) ==
  /\ connections' = g.connections
  /\ handles' = g.handles
  /\ createdSince' =
       [createdSince EXCEPT ![inp.args.database_id] = @ + Len(g.handles) - Len(handles)]
  /\ call' = r @@ [before |-> schema, type |-> g.handles[g.returned].type]
  /\ schema' = r.schema
  /\ phase' = "done"
  /\ UNCHANGED <<inp, session>>

\* switch (name) of the request handler: the handler of each DDL tool.
CallTool(name, connection, args, env, cat) ==
  CASE name = "db_table_create" -> CreateTableDirect(connection, args, env, cat)
    [] name = "db_view_create" -> CreateViewDirect(connection, args, env, cat)
    [] name = "db_matview_create" ->
         CreateMaterializedViewDirect(connection, args, env, cat)
    [] name = "db_index_create" -> CreateIndexDirect(connection, args, env, cat)
    [] name = "db_ai_drop" -> DropAIObject(connection, args, env, cat)

\* The handler of inp.tool, g being what its getConnection did.
Handled(g) ==
  ToolStep(g, CallTool(inp.tool, g.handles[g.returned], inp.args, inp.env, schema))

\* this.getConnection(args.database_id) of the server
ServerGetConnection ==
  GetConnectionCall(connections, handles, inp.args.database_id, inp.env)

\* case 'db_table_create'
HandleCreateTableDirect ==
  phase = "ready" /\ inp.tool = "db_table_create" /\ Handled(ServerGetConnection)

\* case 'db_view_create'
HandleCreateViewDirect ==
  phase = "ready" /\ inp.tool = "db_view_create" /\ Handled(ServerGetConnection)

\* case 'db_matview_create'
HandleCreateMaterializedViewDirect ==
  /\ phase = "ready"
  /\ inp.tool = "db_matview_create"
  /\ Handled(ServerGetConnection)

\* case 'db_index_create'
HandleCreateIndexDirect ==
  phase = "ready" /\ inp.tool = "db_index_create" /\ Handled(ServerGetConnection)

\* case 'db_ai_drop'
HandleDropAIObject ==
  phase = "ready" /\ inp.tool = "db_ai_drop" /\ Handled(ServerGetConnection)

NextTools ==
  \/ HandleCreateTableDirect
  \/ HandleCreateViewDirect
  \/ HandleCreateMaterializedViewDirect
  \/ HandleCreateIndexDirect
  \/ HandleDropAIObject

SpecTools == InitTools /\ [][NextTools]_vars

-----------------------------------------------------------------------------
(* Properties of executeOperation(handle, 'executeDDL', sql, options)      *)

\* The call was made on a direct handle and has returned or thrown.
DirectDone == phase = "done" /\ inp.op = "executeDDL" /\ inp.handle.type = "direct"

\* The operation type the leading keywords of the statement stand for, read
\* from the way the statement was written: the twelve types have one spelling
\* each, with single spaces, and CREATE UNIQUE INDEX is a CREATE_INDEX.
LeadingType(stmt) ==
  IF stmt.verb \in {"OTHER", "CREATE_OR_REPLACE_VIEW"} \/ stmt.style = "spaced"
  THEN "UnsupportedOperation"
  ELSE IF stmt.verb = "CREATE_UNIQUE_INDEX" THEN "CREATE_INDEX"
  ELSE stmt.verb

\* The statement names an object whose unqualified name lacks the prefix.
LacksPrefix(stmt) == ~StartsWith(LastDotPart(stmt.name), PrefixDefault)

\* No statement reached the engine and the catalog is as before the call.
NothingExecuted == call.sent = <<>> /\ call.mutated = {} /\ schema = call.before

\* C1: every object created, dropped or otherwise mutated through executeDDL
\* on a direct handle or through executeOperation on a proxy handle has a name
\* beginning with 'claude_ai_'.
C1_PrefixInvariant ==
  phase = "done" /\ inp.op = "executeDDL" =>
    \A o \in call.mutated : StartsWith(o, PrefixDefault)

\* C2: executeDDL sends the statement to the engine only if validateDDL
\* accepted it and (requireApproval is false or options.approved is true) and
\* dryRun is false; in every other case nothing reaches the engine and the
\* catalog is the same after the call as before it.
C2_ExecuteGate ==
  DirectDone =>
    LET accepted == call.validation = "none"
                    /\ ~(inp.env.lookupFails /\ call.lookups > 0)
        approved == ~inp.handle.options.requireApproval
                    \/ (Has(inp.options, "approved") /\ inp.options.approved)
        open == accepted /\ approved /\ ~inp.handle.options.dryRun
    IN  /\ call.sent # <<>> => open /\ call.sent = <<inp.stmt.text>>
        /\ ~open => NothingExecuted

\* An accepted DROP on a client in dry run mode: previewed, nothing executed.
C2_Witness ==
  /\ DirectDone
  /\ inp.handle.options.dryRun
  /\ Has(inp.options, "approved")
  /\ inp.stmt.verb = "DROP_TABLE"
  /\ call.validation = "none"
  /\ call.response = "preview"
  /\ call.before # {}

\* The statement's operation type is one the client's allowedOperations hold.
TypeAllowed == LeadingType(inp.stmt) \in inp.handle.options.allowedOperations

ContainsDenied(text) ==
  \E k \in {Kw.DropDatabase, Kw.DropSchema, Kw.Truncate, Kw.AlterSystem,
            Kw.CreateUser, Kw.DropUser, Kw.Grant, Kw.Revoke} :
    Includes(ToUpperCase(text), k)

\* C6, as stated: validate fails with DangerousOperation for every statement
\* whose uppercased text contains a deny-listed keyword, and such a statement
\* is never executed.
C6_DenyListAlways ==
  DirectDone /\ ContainsDenied(inp.stmt.text) =>
    call.error = "DangerousOperation" /\ NothingExecuted

\* C6, amended: a statement whose uppercased text contains a deny-listed
\* keyword at any position always fails validation and is never executed; the
\* failure is DangerousOperation when the statement passes the checks made
\* before the scan (a type in allowedOperations and, for CREATE_*/DROP_*, a
\* prefixed name right after the keywords), otherwise it is the error of the
\* first check that fails.
C6_DenyList ==
  DirectDone /\ ContainsDenied(inp.stmt.text) =>
    /\ call.error \in {"UnsupportedOperation", "OperationNotAllowed",
                       "NameExtractionError", "PrefixViolation",
                       "DangerousOperation"}
    /\ NothingExecuted
    /\ TypeAllowed /\ (RequiresPrefix(LeadingType(inp.stmt)) =>
                         inp.stmt.clause = "none" /\ ~LacksPrefix(inp.stmt)) =>
         call.error = "DangerousOperation"
    /\ call.error = "DangerousOperation" => TypeAllowed

\* CREATE TABLE claude_ai_test (grant_date date), approved: refused for the
\* GRANT inside the column name.
C6_Witness ==
  /\ DirectDone
  /\ inp.stmt = Stmt(<<>>, "CREATE_TABLE", "upper", "none", Str.ClaudeAiTest, Str.GrantDate)
  /\ Has(inp.options, "approved")
  /\ ~inp.handle.options.dryRun
  /\ call.error = "DangerousOperation"
  /\ schema = call.before

\* C7: validate fails with OperationNotAllowed, and nothing is executed, for
\* every statement whose classified operation type is not in the handle's
\* allowedOperations, for CREATE_*/DROP_* and SELECT/INSERT/UPDATE/DELETE alike.
C7_Whitelist ==
  DirectDone /\ LeadingType(inp.stmt) # "UnsupportedOperation" /\ ~TypeAllowed =>
    call.error = "OperationNotAllowed" /\ NothingExecuted /\ call.lookups = 0

\* An approved DROP TABLE claude_ai_test on a client allowed no DROP_TABLE.
C7_Witness ==
  /\ DirectDone
  /\ inp.stmt = Stmt(<<>>, "DROP_TABLE", "upper", "none", Str.ClaudeAiTest, <<>>)
  /\ "DROP_INDEX" \in inp.handle.options.allowedOperations
  /\ Has(inp.options, "approved")
  /\ [kind |-> "TABLE", name |-> Str.ClaudeAiTest] \in schema
  /\ call.error = "OperationNotAllowed"

\* C8: classify maps a statement to exactly one of the twelve operation types
\* by its leading keywords after uppercasing and trimming, maps CREATE INDEX
\* and CREATE UNIQUE INDEX to CREATE_INDEX, and fails with
\* UnsupportedOperation for every statement that starts with none of the
\* fixed patterns.
C8_Classify ==
  DirectDone =>
    IF LeadingType(inp.stmt) = "UnsupportedOperation"
    THEN call.error = "UnsupportedOperation" /\ call.operationType = "none"
    ELSE /\ call.operationType = LeadingType(inp.stmt)
         /\ call.operationType \in DefaultAllowedOperations
         /\ call.error # "UnsupportedOperation"

\* A lower-case create unique index, classified CREATE_INDEX.
C8_Witness ==
  /\ DirectDone
  /\ inp.stmt.verb = "CREATE_UNIQUE_INDEX"
  /\ inp.stmt.style = "lower"
  /\ call.operationType = "CREATE_INDEX"

-----------------------------------------------------------------------------
(* Properties of the DDL tools                                             *)

ToolDone == phase = "done" /\ Has(inp, "tool")

\* args.approved is true
Approved(args) == Has(args, "approved") /\ args.approved = TRUE

C4_ApprovalRequired ==
  ToolDone /\ Has(inp.args, "dry_run") /\ inp.args.dry_run = FALSE
           /\ ~Approved(inp.args) =>
    call.sent = <<>> /\ call.mutated = {} /\ call.response # "success"

-----------------------------------------------------------------------------
(* Properties of the handle cache                                          *)

\* C9: under non-overlapping calls, getConnection on a cache hit for d returns
\* the identical handle cached for d without fetching connection info or
\* opening a connection; on a miss the handle it returns is stored under d
\* with handle.databaseId = d; between two evictions of d at most one handle
\* is created for d.
C9_HandleCache ==
  [][call'.op = "getConnection" =>
       LET d == call'.databaseId
       IN  /\ IF CacheKey(d) \in DOMAIN connections
              THEN /\ call'.returned = connections[CacheKey(d)]
                   /\ call'.fetched = 0 /\ call'.opened = 0
                   /\ handles' = handles /\ connections' = connections
              ELSE /\ call'.returned = Len(handles) + 1
                   /\ handles' = Append(handles, handles'[call'.returned])
                   /\ handles'[call'.returned].databaseId = d
                   /\ handles'[call'.returned].type \in {"direct", "proxy"}
                   /\ connections' = MapSet(connections, CacheKey(d), call'.returned)
           /\ \A e \in DbIds : createdSince'[e] <= 1]_vars

\* A hit on the second handle built for a database, the first one evicted.
C9_Witness ==
  /\ call.op = "getConnection"
  /\ call.hit
  /\ call.returned = 2
  /\ handles[1].databaseId = handles[2].databaseId
  /\ handles[2].type = "direct"

\* C10: when the connection info obtained for a database has no password or
\* has the masked sentinel, getConnection does not fail, opens no direct
\* connection, and returns and caches a proxy handle bound to the same
\* database id.
C10_CredentialFallback ==
  /\ call.op = "getConnection"
  /\ ~call.hit
  /\ ~call.env.fetchFails
  /\ \/ ~Has(call.env.info, "password")
     \/ call.env.info.password \in {<<>>, Str.Masked}
  => /\ call.error = "none"
     /\ call.opened = 0
     /\ handles[call.returned].type = "proxy"
     /\ handles[call.returned].databaseId = call.databaseId
     /\ ~handles[call.returned].live
     /\ connections[CacheKey(call.databaseId)] = call.returned

\* A miss answered with a proxy handle because the password is masked.
C10_Witness ==
  /\ call.op = "getConnection"
  /\ ~call.hit
  /\ Has(call.env.info, "password")
  /\ call.env.info.password = Str.Masked
  /\ handles[call.returned].type = "proxy"
  /\ call.fallback = "CredentialsUnavailable"

\* C11: when connect() fails on a connection info that carries a usable
\* password, getConnection surfaces the connection error to its caller, opens
\* no connection, and leaves no handle cached for that database id: only
\* unavailable credentials are answered with a proxy handle.
C11_ConnectFailureFatal ==
  /\ call.op = "getConnection"
  /\ ~call.hit
  /\ call.env.connectFails
  => /\ call.error = "ConnectionError"
     /\ call.opened = 0
     /\ CacheKey(call.databaseId) \notin DOMAIN connections

-----------------------------------------------------------------------------
(* Properties of the backends                                              *)

\* C12: a DDL or owned-object tool called for a database whose handle is a
\* proxy handle is served through the manager's dispatch: no tool fails
\* solely because the handle is not a direct one.
C12_BackendTransparency ==
  ToolDone /\ call.type = "proxy" => call.error # "DirectRequired"

\* C13: disconnect(handle) closes the engine connection of a direct handle
\* that is still open and closes nothing for a proxy handle or for a handle
\* already closed; in every case it completes, leaves the other handles
\* alone, and removes the cache entry of the handle's database id and no
\* other; the next getConnection for that id is a miss that builds a fresh
\* handle.
C13_DisconnectEvicts ==
  [][/\ call'.op = "disconnect" =>
          LET h == call'.handle
              key == CacheKey(handles[h].databaseId)
          IN  /\ call'.closed =
                   IF handles[h].type = "direct" /\ handles[h].live THEN 1 ELSE 0
              /\ ~handles'[h].live
              /\ Len(handles') = Len(handles)
              /\ \A g \in 1..Len(handles) : g # h => handles'[g] = handles[g]
              /\ DOMAIN connections' = DOMAIN connections \ {key}
              /\ \A k \in DOMAIN connections' : connections'[k] = connections[k]
     /\ call.op = "disconnect" /\ call'.op = "getConnection"
          /\ call'.databaseId = handles[call.handle].databaseId =>
          /\ ~call'.hit
          /\ call'.returned = Len(handles) + 1
          /\ call'.returned # call.handle
          /\ connections'[CacheKey(call'.databaseId)] = call'.returned]_vars

\* A second disconnect of a direct handle: nothing is left to close.
C13_Witness ==
  /\ call.op = "disconnect"
  /\ handles[call.handle].type = "direct"
  /\ call.closed = 0
  /\ CacheKey(handles[call.handle].databaseId) \notin DOMAIN connections

\* C14: executeDDLOperation, reached through a proxy handle with a statement
\* isDDLOperation recognises and validateDDLPrefix lets pass. When the action
\* endpoint succeeds the call returns a success without warning; otherwise the
\* dataset endpoint is tried: when it succeeds the call returns a success
\* without warning, when it fails with 'Select statement did not produce a
\* ResultSet' the call returns a success that carries a warning and throws
\* nothing, and on any other failure the error of the dataset endpoint is
\* thrown.
C14_ProxyDDLOutcome ==
  /\ phase = "done"
  /\ inp.op = "executeDDL"
  /\ inp.handle.type = "proxy"
  /\ IsDDLOperation(inp.stmt.text)
  /\ ValidateDDLPrefix(inp.stmt.text)
  => LET first == Endpoint(inp.env.primary, inp.stmt.text, call.before)
         second == Endpoint(inp.env.secondary, inp.stmt.text, first.schema)
     IN  IF first.error = "none"
         THEN call.error = "none" /\ call.response = "result" /\ ~call.warning
         ELSE CASE second.error = "none" ->
                     call.error = "none" /\ call.response = "result" /\ ~call.warning
                [] second.error = "NoResultSet" ->
                     call.error = "none" /\ call.response = "result" /\ call.warning
                [] OTHER ->
                     call.error = second.error /\ call.response = "none"
                                               /\ ~call.warning

\* A CREATE TABLE the action endpoint refused and the dataset endpoint ran
\* without getting a result set: a success with a warning, the table created.
C14_Witness ==
  /\ phase = "done"
  /\ inp.op = "executeDDL"
  /\ inp.handle.type = "proxy"
  /\ inp.env.primary = "down"
  /\ inp.env.secondary = "noResultSet"
  /\ IsDDLOperation(inp.stmt.text)
  /\ call.error = "none"
  /\ call.warning
  /\ call.mutated # {}

-----------------------------------------------------------------------------
(* Properties of the dry run and of DROP                                   *)

\* The statement passed validateDDL's checks of its text, and the approval
\* gate is open, on a client constructed with dryRun true.
DryRunReached ==
  /\ DirectDone
  /\ inp.handle.options.dryRun
  /\ call.validation = "none"
  /\ ~inp.handle.options.requireApproval
     \/ (Has(inp.options, "approved") /\ inp.options.approved)

\* C20, as stated: with dryRun true and the approval gate passed, executeDDL
\* returns the preview and issues no query of any kind on the connection,
\* neither the statement nor a catalog lookup, for a DROP_* statement too.
C20_DryRunNoQuery ==
  DryRunReached =>
    /\ call.response = "preview"
    /\ call.sent = <<>>
    /\ call.lookups = 0

\* C20, as the code has it: with dryRun true and the approval gate passed,
\* executeDDL never sends the statement and the catalog is unchanged; the one
\* query it may issue is the catalog lookup validateDDL makes for a DROP_*
\* statement on PostgreSQL, before the gates: when that lookup fails its error
\* is thrown, otherwise the preview is returned.
C20_DryRunNoExecution ==
  DryRunReached =>
    /\ NothingExecuted
    /\ call.lookups =
         IF LeadingType(inp.stmt) \in DropTypes /\ inp.handle.engine = "postgres"
         THEN 1 ELSE 0
    /\ IF call.lookups = 1 /\ inp.env.lookupFails
       THEN call.error = "QueryError" /\ call.response = "none"
       ELSE call.error = "none" /\ call.response = "preview"

\* A DROP TABLE previewed on PostgreSQL after one catalog lookup.
C20_Witness ==
  /\ DryRunReached
  /\ LeadingType(inp.stmt) = "DROP_TABLE"
  /\ inp.handle.engine = "postgres"
  /\ call.response = "preview"
  /\ call.lookups = 1
  /\ call.before = schema

\* An approved DROP_* ... IF EXISTS of a prefixed name, on a client that is
\* not in dry run mode, whose existence check reported the object missing.
DropOfMissing ==
  /\ DirectDone
  /\ LeadingType(inp.stmt) \in DropTypes
  /\ inp.stmt.clause = "IF_EXISTS"
  /\ call.validation = "none"
  /\ ~inp.handle.options.dryRun
  /\ ~inp.handle.options.requireApproval
     \/ (Has(inp.options, "approved") /\ inp.options.approved)
  /\ call.warned

\* C18, as stated: for every DROP_* statement written with IF EXISTS and a
\* prefixed name, when the existence check reports that the object does not
\* exist, validate only logs a warning and executeDDL with approval and
\* without dry run succeeds; the catalog being left as it was, repeating the
\* call succeeds each time.
C18_DropMissingSucceeds ==
  DropOfMissing =>
    /\ call.error = "none"
    /\ call.response = "result"
    /\ call.sent = <<inp.stmt.text>>
    /\ schema = call.before

\* C18, as the code has it: the same, when no object of any kind bears the
\* name. When the name denotes an object of another kind than the one the
\* statement drops, the existence check reports it missing as well, validate
\* logs the warning, and the engine rejects the statement.
C18_DropAbsentSucceeds ==
  DropOfMissing =>
    IF \A o \in call.before : o.name # inp.stmt.name
    THEN /\ call.error = "none"
         /\ call.response = "result"
         /\ call.sent = <<inp.stmt.text>>
         /\ schema = call.before
    ELSE /\ call.error = "EngineError"
         /\ call.sent = <<inp.stmt.text>>
         /\ schema = call.before

\* DROP INDEX IF EXISTS claude_ai_test on a database without any object of
\* that name: the warning is logged and the statement succeeds.
C18_Witness ==
  /\ DropOfMissing
  /\ LeadingType(inp.stmt) = "DROP_INDEX"
  /\ \A o \in call.before : o.name # inp.stmt.name
  /\ call.lookups = 1
  /\ call.error = "none"
  /\ call.sent = <<inp.stmt.text>>

-----------------------------------------------------------------------------
(* executeOperation: the operations on owned objects                       *)

\* The four categories of the objects listing, in the order they are queried.
Categories == <<"tables", "views", "materialized_views", "indexes">>

\* s LIKE pattern: _ stands for any one character, % for any characters.
RECURSIVE Like(_, _)
Like(s, pattern) ==
  IF pattern = <<>> THEN s = <<>>
  ELSE IF Head(pattern) = "%"
  THEN Like(s, Tail(pattern)) \/ (s # <<>> /\ Like(Tail(s), pattern))
  ELSE /\ s # <<>>
       /\ Head(pattern) = "_" \/ Head(pattern) = Head(s)
       /\ Like(Tail(s), Tail(pattern))

\* The names a catalog query of the listing returns: information_schema.tables
\* (which lists views as well), information_schema.views, pg_matviews,
\* pg_indexes, each filtered with LIKE.
CatalogRows(cat, category, pattern) ==
  {o.name : o \in
     {x \in cat :
        /\ x.kind \in CASE category = "tables" -> {"TABLE", "VIEW"}
                        [] category = "views" -> {"VIEW"}
                        [] category = "materialized_views" -> {"MATERIALIZED_VIEW"}
                        [] category = "indexes" -> {"INDEX"}
        /\ Like(x.name, pattern)}}

\* DirectDatabaseClient.listOwnObjects(): on PostgreSQL four queries in a
\* row, none of them guarded; on another engine no query. env.failing holds
\* the categories whose catalog query fails; queried, the queries issued.
ListOwnObjects(client, env, cat) ==
  IF client.engine # "postgres"
  THEN [error |-> "none", queried |-> <<>>, warned |-> {},
        objects |-> [c \in {Categories[i] : i \in 1..4} |-> {}]]
  ELSE IF \E i \in 1..4 : Categories[i] \in env.failing
  THEN [error |-> "QueryError", warned |-> {},
        queried |-> SubSeq(Categories, 1,
                           CHOOSE i \in 1..4 :
                             /\ Categories[i] \in env.failing
                             /\ \A j \in 1..(i - 1) : Categories[j] \notin env.failing)]
  ELSE [error |-> "none", queried |-> Categories, warned |-> {},
        objects |-> [c \in {Categories[i] : i \in 1..4} |->
                       CatalogRows(cat, c, client.options.prefix \o Str.Percent)]]

\* listOwnObjectsViaProxy(client, databaseId): the same four queries through
\* executeNativeQuery, the last two inside try/catch.
ListOwnObjectsViaProxy(env, cat) ==
  IF "tables" \in env.failing
  THEN [error |-> "QueryError", warned |-> {}, queried |-> <<"tables">>]
  ELSE IF "views" \in env.failing
  THEN [error |-> "QueryError", warned |-> {}, queried |-> <<"tables", "views">>]
  ELSE [error |-> "none", queried |-> Categories,
        warned |-> env.failing \cap {"materialized_views", "indexes"},
        objects |-> [c \in {Categories[i] : i \in 1..4} |->
                       IF c \in env.failing THEN {}
                       ELSE CatalogRows(cat, c, PrefixDefault \o Str.Percent)]]

\* A row of table_columns: a column of a base table of the schema, with its
\* data type and whether it is the table's primary key.
Column(table, column, type, pk) ==
  [table_name |-> table, column_name |-> column, data_type |-> type,
   is_primary_key |-> pk]

\* A confidence that ignores the names: property C19 tells it from the real
\* one.
ConfidenceFlat(tc1, tc2) == 50

\* The CASE of potential_relationships, in hundredths.
Confidence(tc1, tc2) ==
  IF tc1.column_name = tc2.column_name THEN 90
  ELSE IF /\ Like(tc1.column_name, Str.AnyUnderscoreId)
          /\ tc2.column_name = Str.Id
          /\ tc1.column_name = tc2.table_name \o Str.UnderscoreId
  THEN 95
  ELSE IF Like(tc1.column_name, Str.AnyUnderscoreId) /\ tc2.is_primary_key THEN 80
  ELSE IF Like(tc1.column_name, tc2.table_name \o Str.Percent) THEN 70
  ELSE 50

\* suggestVirtualRelationships(schemaName, confidenceThreshold) on the
\* columns of the schema: the rows of the result, whatever their order.
SuggestVirtualRelationships(client, columns, confidenceThreshold) ==
  IF client.engine = "postgres"
  THEN {r \in {[sourceTable |-> p[1].table_name,
                sourceColumn |-> p[1].column_name,
                targetTable |-> p[2].table_name,
                targetColumn |-> p[2].column_name,
                confidence |-> Confidence(p[1], p[2]),
                relationshipType |-> "many-to-one"] :
                 p \in {q \in columns \X columns :
                          /\ q[1].data_type = q[2].data_type
                          /\ q[1].table_name # q[2].table_name
                          /\ q[2].is_primary_key
                          /\ q[1].column_name # Str.Id}} :
          r.confidence >= confidenceThreshold}
  ELSE {}

\* One call on a handle. The database holds foreign objects only, or also one
\* owned object of each kind and a table whose name only LIKE takes for an
\* owned one. The call is
\*  - executeOperation(handle, 'listOwnObjects') on each kind of handle, with
\*    any set of catalog queries failing;
\*  - executeOperation(handle, 'createTable' | 'createView' |
\*    'createMaterializedView' | 'createIndex', name, ...) on each kind of
\*    handle, the name given with or without the prefix, in upper case, or
\*    with another character where the prefix has its first underscore;
\*  - suggestVirtualRelationships on a connected client, for any set of the
\*    columns a schema may hold, the threshold being the default 0.7 or one
\*    given by the caller.
InitOperations ==
  /\ connections = <<>>
  /\ handles = <<>>
  /\ createdSince = <<>>
  /\ schema \in
       {ForeignCatalog,
        ForeignCatalog
        \cup {[kind |-> "TABLE", name |-> Str.ClaudeAiTest],
              [kind |-> "VIEW", name |-> Str.ClaudeAiView],
              [kind |-> "MATERIALIZED_VIEW", name |-> Str.ClaudeAiMatview],
              [kind |-> "INDEX", name |-> Str.ClaudeAiIndex],
              [kind |-> "TABLE", name |-> Str.ClaudexaiTest]}}
  /\ inp \in
       {[op |-> "listOwnObjects", handle |-> h, env |-> [failing |-> f]] :
          h \in {DirectHandle("postgres", <<>>), DirectHandle("mysql", <<>>),
                 [type |-> "proxy"]},
          f \in SUBSET {Categories[i] : i \in 1..4}}
       \cup
       {[op |-> o, handle |-> h, name |-> n, options |-> a @@ q @@ u,
         env |-> [engine |-> "postgres", lookupFails |-> FALSE, primary |-> "up",
                  secondary |-> "up"]] :
          o \in {"createTable", "createView", "createMaterializedView",
                 "createIndex"},
          h \in {DirectHandle("postgres", <<>>),
                 DirectHandle("postgres", [dryRun |-> TRUE]), [type |-> "proxy"]},
          n \in {Str.Test, Str.ClaudeAiTest, Str.UpperClaudeAiTest,
                 Str.ClaudexaiTest},
          a \in Optional("approved", {TRUE}),
          q \in Optional("schema", {Str.Public}),
          u \in Optional("unique", {TRUE})}
       \cup
       {[op |-> "suggestVirtualRelationships", handle |-> DirectHandle(e, <<>>),
         columns |-> c, threshold |-> t] :
          e \in {"postgres", "mysql"},
          c \in SUBSET {Column(Str.Orders, Str.CustomerId, "integer", FALSE),
                        Column(Str.Orders, Str.CustomersRef, "integer", FALSE),
                        Column(Str.Orders, Str.Total, "integer", FALSE),
                        Column(Str.Orders, Str.Sku, "integer", FALSE),
                        Column(Str.Customers, Str.Id, "integer", TRUE),
                        Column(Str.Customer, Str.Id, "integer", TRUE),
                        Column(Str.Items, Str.Sku, "integer", TRUE),
                        Column(Str.Customers, Str.Total, "text", FALSE)},
          t \in {50, 70, 90}}
  /\ call = [op |-> "none"]
  /\ phase = "ready"
  /\ session = [token |-> 0, valid |-> {}, logins |-> 0]

\* executeOperation(connection, 'listOwnObjects')
ExecuteListOwnObjects ==
  /\ phase = "ready"
  /\ inp.op = "listOwnObjects"
  /\ call' = IF inp.handle.type = "direct"
             THEN ListOwnObjects(inp.handle, inp.env, schema)
             ELSE ListOwnObjectsViaProxy(inp.env, schema)
  /\ phase' = "done"
  /\ UNCHANGED <<connections, handles, createdSince, schema, inp, session>>

\* executeOperation(connection, operation, name, ...), operation being one
\* of the four create operations.
ExecuteCreate ==
  /\ phase = "ready"
  /\ inp.op \in {"createTable", "createView", "createMaterializedView", "createIndex"}
  /\ call' =
       (CASE inp.op = "createTable" ->
               ExecuteCreateTable(inp.handle, inp.name, Str.IdInt, inp.options,
                                  inp.env, schema)
          [] inp.op = "createView" ->
               IF inp.handle.type = "direct"
               THEN CreateView(inp.handle, inp.name, Str.SelectOne, inp.options,
                               inp.env, schema)
               ELSE CreateViewViaProxy(inp.name, Str.SelectOne, inp.options,
                                       inp.env, schema)
          [] inp.op = "createMaterializedView" ->
               IF inp.handle.type = "direct"
               THEN CreateMaterializedView(inp.handle, inp.name, Str.SelectOne,
                                           inp.options, inp.env, schema)
               ELSE CreateMaterializedViewViaProxy(inp.name, Str.SelectOne,
                                                   inp.options, inp.env, schema)
          [] inp.op = "createIndex" ->
               IF inp.handle.type = "direct"
               THEN CreateIndex(inp.handle, inp.name, Str.Users, Str.Id,
                                inp.options, inp.env, schema)
               ELSE CreateIndexViaProxy(inp.name, Str.Users, Str.Id, inp.options,
                                        inp.env, schema))
       @@ [before |-> schema]
  /\ schema' = call'.schema
  /\ phase' = "done"
  /\ UNCHANGED <<connections, handles, createdSince, inp, session>>

\* client.suggestVirtualRelationships(schemaName, confidenceThreshold)
SuggestRelationships ==
  /\ phase = "ready"
  /\ inp.op = "suggestVirtualRelationships"
  /\ call' = [error |-> "none",
              result |-> SuggestVirtualRelationships(inp.handle, inp.columns,
                                                     inp.threshold)]
  /\ phase' = "done"
  /\ UNCHANGED <<connections, handles, createdSince, schema, inp, session>>

NextOperations == ExecuteListOwnObjects \/ ExecuteCreate \/ SuggestRelationships

SpecOperations == InitOperations /\ [][NextOperations]_vars

\* C15: DirectDatabaseClient.listOwnObjects on PostgreSQL degrades per
\* category: whichever catalog queries fail, the call returns, with an empty
\* list for each failed category and the rows of the other categories.
C15_ListDegradesDirect ==
  /\ phase = "done"
  /\ inp.op = "listOwnObjects"
  /\ inp.handle.type = "direct"
  /\ inp.handle.engine = "postgres"
  => /\ call.error = "none"
     /\ call.objects =
          [c \in {Categories[i] : i \in 1..4} |->
             IF c \in inp.env.failing THEN {}
             ELSE CatalogRows(schema, c, PrefixDefault \o Str.Percent)]

\* C16: listOwnObjectsViaProxy guards each of its four category queries on
\* its own: whichever of them fail, the call returns, with an empty list for
\* each failed category and the rows of the other categories.
C16_ListDegradesProxy ==
  /\ phase = "done"
  /\ inp.op = "listOwnObjects"
  /\ inp.handle.type = "proxy"
  => /\ call.error = "none"
     /\ call.objects =
          [c \in {Categories[i] : i \in 1..4} |->
             IF c \in inp.env.failing THEN {}
             ELSE CatalogRows(schema, c, PrefixDefault \o Str.Percent)]

\* C17: in createTable, createView, createMaterializedView and createIndex,
\* on a direct handle and on a proxy handle alike, the object name of the
\* composed statement is the given name when it starts with the prefix and
\* prefix + name otherwise: the name validate extracts from the statement of
\* the direct client, every statement sent to the engine (only the direct
\* client qualifies the name with options.schema) and the object the engine
\* creates all bear that name, which starts with the prefix once.
C17_PrefixOnce ==
  /\ phase = "done"
  /\ inp.op \in {"createTable", "createView", "createMaterializedView", "createIndex"}
  => LET n == (IF StartsWith(inp.name, PrefixDefault) THEN inp.name
               ELSE PrefixDefault \o inp.name)
         full == IF inp.handle.type = "direct" THEN Qualified(inp.options, n)
                 ELSE n
     IN  /\ inp.handle.type = "direct" => call.objectName = n
         /\ inp.handle.type = "proxy" => call.sent # <<>>
         /\ \A i \in 1..Len(call.sent) :
              call.sent[i] =
                CASE inp.op = "createTable" -> CreateTableSQL(full, Str.IdInt)
                  [] inp.op = "createView" -> CreateViewSQL(full, Str.SelectOne)
                  [] inp.op = "createMaterializedView" ->
                       CreateMaterializedViewSQL(full, Str.SelectOne)
                  [] inp.op = "createIndex" ->
                       CreateIndexSQL(inp.options, n, Str.Users, Str.Id)
         /\ \A o \in call.mutated :
              /\ o = ToLowerCase(n)
              /\ [kind |-> CASE inp.op = "createTable" -> "TABLE"
                             [] inp.op = "createView" -> "VIEW"
                             [] inp.op = "createMaterializedView" ->
                                  "MATERIALIZED_VIEW"
                             [] inp.op = "createIndex" -> "INDEX",
                  name |-> o] \in schema

\* createIndex through a proxy handle with a name that has the prefix: the
\* index is created under the name as given.
C17_Witness ==
  /\ phase = "done"
  /\ inp.op = "createIndex"
  /\ inp.handle.type = "proxy"
  /\ inp.name = Str.ClaudeAiTest
  /\ call.mutated = {Str.ClaudeAiTest}
  /\ [kind |-> "INDEX", name |-> Str.ClaudeAiTest] \in schema

\* suggestVirtualRelationships has answered on PostgreSQL for a schema that
\* holds the column orders.customer_id and the primary key customers.id, both
\* integer.
SuggestedForOrders ==
  /\ phase = "done"
  /\ inp.op = "suggestVirtualRelationships"
  /\ inp.handle.engine = "postgres"
  /\ Column(Str.Orders, Str.CustomerId, "integer", FALSE) \in inp.columns
  /\ Column(Str.Customers, Str.Id, "integer", TRUE) \in inp.columns

\* The rows of the result from orders.customer_id to the table target's id.
RowsTo(target) ==
  {r \in call.result :
     /\ r.sourceTable = Str.Orders /\ r.sourceColumn = Str.CustomerId
     /\ r.targetTable = target /\ r.targetColumn = Str.Id}

\* C19, as stated: with the default threshold the result contains the
\* relationship orders.customer_id -> customers.id with a confidence of at
\* least 0.9 and the relationship type many-to-one.
C19_ConfidenceAtLeast90 ==
  SuggestedForOrders /\ inp.threshold = 70 =>
    \E r \in RowsTo(Str.Customers) :
      r.confidence >= 90 /\ r.relationshipType = "many-to-one"

\* C19, as the code has it: the relationship orders.customer_id ->
\* customers.id has the confidence 0.8 of an _id-suffixed column referencing
\* a primary key, the table being named customers and not customer: it is in
\* the result, once, with the type many-to-one, exactly when the threshold is
\* at most 0.8. The confidence 0.95 goes to orders.customer_id -> customer.id.
C19_ConfidenceTiers ==
  SuggestedForOrders =>
    /\ RowsTo(Str.Customers) =
         IF inp.threshold <= 80
         THEN {[sourceTable |-> Str.Orders, sourceColumn |-> Str.CustomerId,
                targetTable |-> Str.Customers, targetColumn |-> Str.Id,
                confidence |-> 80, relationshipType |-> "many-to-one"]}
         ELSE {}
    /\ Column(Str.Customer, Str.Id, "integer", TRUE) \in inp.columns =>
         \E r \in RowsTo(Str.Customer) : r.confidence = 95
    /\ \A r \in call.result :
         /\ r.confidence \in {95, 90, 80, 70, 50}
         /\ r.confidence >= inp.threshold
         /\ r.relationshipType = "many-to-one"

\* With the default threshold the relationship is suggested with 0.8, beside
\* one with 0.9 for the identically named column sku.
C19_Witness ==
  /\ SuggestedForOrders
  /\ inp.threshold = 70
  /\ \E r \in RowsTo(Str.Customers) : r.confidence = 80
  /\ \E r \in call.result : r.confidence = 90 /\ r.sourceColumn = Str.Sku
  /\ \E r \in call.result : r.confidence = 70 /\ r.sourceColumn = Str.CustomersRef

-----------------------------------------------------------------------------
(* Properties of the order of the checks                                   *)

C24_GateOrder ==
  DirectDone =>
    LET unapproved == inp.handle.options.requireApproval
                      /\ ~(Has(inp.options, "approved") /\ inp.options.approved)
        lookupFailed == inp.env.lookupFails /\ call.lookups > 0
    IN  /\ call.validation # "none" =>
             call.error = call.validation /\ call.response = "none"
        /\ call.validation = "none" /\ lookupFailed => call.error = "QueryError"
        /\ call.validation = "none" /\ ~lookupFailed /\ unapproved =>
             /\ call.error = "ApprovalRequired"
             /\ call.response = "none"
             /\ NothingExecuted
        /\ call.response = "preview" => call.validation = "none" /\ ~unapproved

\* An unapproved CREATE TABLE claude_ai_test on a client in dry run mode
\* that requires approval: ApprovalRequired, no preview.
C24_Witness ==
  /\ DirectDone
  /\ inp.stmt = Stmt(<<>>, "CREATE_TABLE", "upper", "none", Str.ClaudeAiTest, <<>>)
  /\ inp.handle.options.dryRun
  /\ inp.handle.options.requireApproval
  /\ ~Has(inp.options, "approved")
  /\ call.validation = "none"
  /\ call.error = "ApprovalRequired"

\* C25: the proxy backend applies the policy decision of the direct backend.
\* For every statement given to executeOperation(handle, 'executeDDL', sql),
\* a proxy handle rejects it exactly when a direct handle with the default
\* policy rejects it for its prefix, for an unsupported type or for a
\* dangerous keyword; every statement the direct client classifies as
\* CREATE_* or DROP_* (CREATE UNIQUE INDEX too) is recognised as DDL by the
\* proxy and refused when its target object name lacks the prefix.
C25_ProxySamePolicy ==
  phase = "done" /\ inp.op = "executeDDL" /\ inp.handle.type = "proxy" =>
    LET direct == ValidateDDL(inp.stmt.text, NewClientOptions(<<>>))
    IN  /\ call.error = "PrefixViolation" <=>
             direct.error \in {"PrefixViolation", "UnsupportedOperation",
                               "DangerousOperation"}
        /\ RequiresPrefix(LeadingType(inp.stmt)) =>
             /\ IsDDLOperation(inp.stmt.text)
             /\ LacksPrefix(inp.stmt) =>
                  call.error = "PrefixViolation" /\ NothingExecuted

-----------------------------------------------------------------------------
(* Properties of the handle cache                                          *)

\* C28: no orphaned connection under sequential use. After any sequence of
\* non-overlapping getConnection, disconnect and disconnectAll calls every
\* direct connection that is still open belongs to the handle cached for its
\* database id: disconnect(h) never evicts a different, still open handle
\* cached under the id of a stale h, and after disconnectAll the cache is
\* empty and no connection the manager opened is open.
C28_NoOrphan ==
  /\ \A h \in 1..Len(handles) :
       handles[h].type = "direct" /\ handles[h].live =>
         /\ CacheKey(handles[h].databaseId) \in DOMAIN connections
         /\ connections[CacheKey(handles[h].databaseId)] = h
  /\ call.op = "disconnect" /\ call.evicted \notin {0, call.handle} =>
       ~handles[call.evicted].live
  /\ call.op = "disconnectAll" =>
       /\ connections = EmptyMap
       /\ \A h \in 1..Len(handles) : ~handles[h].live

-----------------------------------------------------------------------------
(* getConnection with overlapping calls                                    *)

\* getConnection(metabaseClient, databaseId) up to its first suspension
\* point: the cache check, and on a hit the return. On a miss the call is
\* suspended in createDirectConnection; inp holds the database ids of the
\* suspended calls. phase records whether a call has ever begun while
\* another one for the same database id was suspended.
BeginGetConnection(databaseId) ==
  /\ Len(handles) + Len(inp) < MaxHandles
  /\ phase' = IF \E i \in 1..Len(inp) : inp[i] = databaseId
              THEN "overlapped" ELSE phase
  /\ IF CacheHit(connections, databaseId)
     THEN /\ call' = [op |-> "getConnection", databaseId |-> databaseId,
                      returned |-> connections[CacheKey(databaseId)],
                      hit |-> TRUE, error |-> "none"]
          /\ inp' = inp
     ELSE /\ call' = [op |-> "suspended", databaseId |-> databaseId]
          /\ inp' = Append(inp, databaseId)
  /\ UNCHANGED <<connections, handles, createdSince, schema, session>>

\* The rest of a suspended getConnection: createDirectConnection answers,
\* the handle is stored under the cache key, whatever the cache holds by
\* then, and returned.
ResumeGetConnection(i) ==
  \E env \in ConnectionEnvs :
    LET r == StoreConnection(connections, handles, inp[i],
                             CreateDirectConnection(inp[i], env))
    IN  /\ connections' = r.connections
        /\ handles' = r.handles
        /\ createdSince' =
             [createdSince EXCEPT ![inp[i]] = @ + Len(r.handles) - Len(handles)]
        /\ call' = [op |-> "getConnection", databaseId |-> inp[i],
                    returned |-> r.returned, hit |-> FALSE, error |-> r.error]
        /\ inp' = SubSeq(inp, 1, i - 1) \o SubSeq(inp, i + 1, Len(inp))
        /\ UNCHANGED <<schema, phase, session>>

NextOverlap ==
  \/ \E d \in DbIds : BeginGetConnection(d)
  \/ \E i \in 1..Len(inp) : ResumeGetConnection(i)
  \/ DisconnectAll

SpecOverlap == InitManager /\ [][NextOverlap]_vars

-----------------------------------------------------------------------------
(* Properties of the previews                                              *)

\* C29: preview fidelity. For db_table_create, db_view_create,
\* db_matview_create and db_index_create, the SQL the dry run preview shows
\* is the SQL the same arguments execute with dry_run false and approved
\* true, for every object name, a name that already starts with
\* 'claude_ai_' included.
C29_PreviewFidelity ==
  /\ ToolDone
  /\ inp.tool \in {"db_table_create", "db_view_create", "db_matview_create",
                   "db_index_create"}
  /\ Has(inp.args, "dry_run") /\ inp.args.dry_run = FALSE
  /\ Approved(inp.args)
  /\ call.sent # <<>>
  => LET shown == CallTool(inp.tool, handles[Len(handles)],
                           [f \in DOMAIN inp.args \ {"dry_run"} |-> inp.args[f]],
                           inp.env, call.before)
     IN  /\ shown.response = "preview"
         /\ \A i \in 1..Len(call.sent) : call.sent[i] = shown.text

-----------------------------------------------------------------------------
(* MetabaseClient: the session and the connection info                     *)

\* authenticate(): POST /api/session. On success the platform issues a new
\* token, which the client keeps; on failure the call throws.
Authenticate(s, env) ==
  IF env.loginFails THEN [session |-> s, error |-> "AuthenticationFailed"]
  ELSE [session |-> [token |-> s.logins + 1, valid |-> s.valid \cup {s.logins + 1},
                     logins |-> s.logins + 1],
        error |-> "none"]

\* ensureAuthenticated(): if (!this.sessionToken) await this.authenticate()
EnsureAuthenticated(s, env) ==
  IF s.token = 0 THEN Authenticate(s, env) ELSE [session |-> s, error |-> "none"]

\* buildConnectionString(db); a template literal prints a missing password
\* as 'undefined'.
BuildConnectionString(db) ==
  LET password == IF Has(db.details, "password") THEN db.details.password
                  ELSE Str.Undefined
      rest == db.details.user \o Str.Colon \o password \o Str.At \o db.details.host
              \o Str.Colon \o db.details.port \o Str.Slash \o db.details.dbname
  IN  CASE db.engine = "postgres" -> Str.PostgresqlScheme \o rest
        [] db.engine = "mysql" -> Str.MysqlScheme \o rest
        [] db.engine = "h2" -> db.details.dbname
        [] OTHER -> Str.Null

\* getDatabaseConnectionInfo(id) after ensureAuthenticated() has answered
\* with a; api is the response of GET /api/database/:id, in which the
\* platform shows the stored password or masks it. The row of
\* getRealCredentials holds the stored details; when that query returns no
\* row or fails, the API response is used. A field that is undefined is
\* absent. A request with a token the platform does not accept is rejected.
ConnectionInfo(a, db, env, api) ==
  IF a.error # "none" THEN a
  ELSE IF a.session.token \notin a.session.valid
  THEN [session |-> a.session, error |-> "Unauthorized"]
  ELSE IF env.recovery = "row"
  THEN a @@ [info |-> [id |-> db.id, name |-> db.name, engine |-> db.engine,
                       host |-> db.details.host, port |-> db.details.port,
                       dbname |-> db.details.dbname, user |-> db.details.user,
                       ssl |-> FALSE, tunnel_enabled |-> FALSE]
                      @@ PassedOptions(db.details, {"password"})]
  ELSE a @@ [info |-> [id |-> api.id, name |-> api.name, engine |-> api.engine,
                       host |-> api.details.host, port |-> api.details.port,
                       dbname |-> api.details.dbname, user |-> api.details.user,
                       connection_string |-> BuildConnectionString(api)]
                      @@ PassedOptions(api.details, {"password"})]

\* getDatabaseConnectionInfo(id)
GetDatabaseConnectionInfo(s, db, env) ==
  ConnectionInfo(EnsureAuthenticated(s, env), db, env,
                 IF env.api = "masked" /\ Has(db.details, "password")
                 THEN [db EXCEPT !.details.password = Str.Masked] ELSE db)

\* handleGetConnectionInfo: safeInfo, the object whose JSON is returned.
SafeInfo(connectionInfo) ==
  IF Has(connectionInfo, "password") /\ connectionInfo.password # <<>>
  THEN [connectionInfo EXCEPT !.password = Str.Hidden]
  ELSE connectionInfo

\* getDatabases(): ensureAuthenticated(), then GET /api/database.
GetDatabases ==
  /\ \E loginFails \in BOOLEAN :
       LET a == EnsureAuthenticated(session, [loginFails |-> loginFails])
       IN  /\ session' = a.session
           /\ call' = [op |-> "getDatabases", before |-> session,
                       loginFails |-> loginFails,
                       error |-> IF a.error # "none" THEN a.error
                                 ELSE IF a.session.token \notin a.session.valid
                                 THEN "Unauthorized" ELSE "none"]
  /\ UNCHANGED <<connections, handles, createdSince, schema, inp, phase>>

\* case 'db_connection_info': handleGetConnectionInfo(args.database_id), for a
\* database of any engine whose stored password is missing, empty or set.
HandleGetConnectionInfo ==
  /\ \E db \in {[id |-> 1, name |-> Str.Warehouse, engine |-> e,
                 details |-> [user |-> Str.App, host |-> Str.Host,
                              port |-> Str.Port, dbname |-> Str.Shop] @@ p] :
                  e \in {"postgres", "mysql", "h2", "oracle"},
                  p \in Optional("password", {<<>>, Str.Secret, Str.Hunter})},
        env \in [loginFails : BOOLEAN, recovery : {"row", "empty", "fails"},
                 api : {"plain", "masked"}] :
       LET r == GetDatabaseConnectionInfo(session, db, env)
       IN  /\ session' = r.session
           /\ call' = [op |-> "db_connection_info", before |-> session,
                       loginFails |-> env.loginFails, db |-> db, env |-> env,
                       error |-> r.error]
                      @@ (IF r.error = "none" THEN [text |-> SafeInfo(r.info)]
                          ELSE <<>>)
  /\ UNCHANGED <<connections, handles, createdSince, schema, inp, phase>>

\* The platform ends the session of the client's token.
ExpireSession ==
  /\ session.token \in session.valid
  /\ session' = [session EXCEPT !.valid = @ \ {session.token}]
  /\ call' = [op |-> "expire"]
  /\ UNCHANGED <<connections, handles, createdSince, schema, inp, phase>>

NextClient == GetDatabases \/ HandleGetConnectionInfo \/ ExpireSession

\* The client as constructed holds no token.
SpecClient == InitManager /\ [][NextClient]_vars

\* C21: the session token of MetabaseClient. The first API call logs in and
\* obtains a token; a later call made while the token is accepted reuses it
\* without logging in again; a call made after the token has expired
\* re-authenticates and leaves the client with a new, accepted token, so
\* that not every later call fails.
C21_SessionLifecycle ==
  call.op \in {"getDatabases", "db_connection_info"} /\ ~call.loginFails =>
    /\ call.before.token = 0 =>
         /\ session.logins = call.before.logins + 1
         /\ session.token \in session.valid
         /\ call.error = "none"
    /\ call.before.token \in call.before.valid =>
         session = call.before /\ call.error = "none"
    /\ call.before.token # 0 /\ call.before.token \notin call.before.valid =>
         /\ session.token \in session.valid
         /\ session.token # call.before.token

\* C30: the text db_connection_info returns does not depend on the stored
\* password. For two databases that differ only in their password the text
\* is the same: the password field reads '***HIDDEN***' and no other field,
\* connection_string included, contains the password, whether the info came
\* from the credential recovery or from the API response.
C30_PasswordIndependent ==
  /\ call.op = "db_connection_info"
  /\ call.error = "none"
  /\ Has(call.db.details, "password")
  /\ call.db.details.password # <<>>
  => /\ call.text.password = Str.Hidden
     /\ \A f \in DOMAIN call.text \cap {"connection_string", "user", "host", "dbname"} :
          ~Includes(call.text[f], call.db.details.password)
     /\ \A other \in {Str.Secret, Str.Hunter} :
          call.text =
            SafeInfo(GetDatabaseConnectionInfo(
                       call.before, [call.db EXCEPT !.details.password = other],
                       call.env).info)

-----------------------------------------------------------------------------
(* db_schema_analyze: the introspection and its timer                      *)

\* args.timeout_seconds || 30
TimeoutSeconds(args) ==
  IF Has(args, "timeout_seconds") /\ args.timeout_seconds # 0
  THEN args.timeout_seconds ELSE 30

\* A catch branch that throws the error on to the dispatcher: property C22
\* tells it from the real one.
Rethrown(message, elapsed) ==
  [response |-> "none", thrown |-> TRUE, message |-> message, elapsed |-> elapsed]

\* The catch branch of handleExploreSchemaTablesAdvanced: the content
\* 'ADVANCED EXPLORATION FAILED' with the message of the error.
Caught(message, elapsed) ==
  [response |-> "failed", thrown |-> FALSE, message |-> message, elapsed |-> elapsed]

\* One db_schema_analyze call. The environment decides what getConnection
\* finds, after how many milliseconds the introspection settles (-1: never)
\* and whether it then resolves with its tables or rejects.
InitExplore ==
  /\ connections = EmptyMap
  /\ handles = <<>>
  /\ createdSince = [d \in DbIds |-> 0]
  /\ schema = {}
  /\ inp \in
       {[tool |-> "db_schema_analyze",
         args |-> [database_id |-> 1, schema_name |-> Str.Public] @@ t @@ l,
         env |-> g @@ [duration |-> d, result |-> r, tables |-> n]] :
          t \in Optional("timeout_seconds", {0, 1, 2, 31}),
          l \in Optional("limit", {5}),
          g \in ConnectionEnvs,
          d \in {-1, 0, 500, 1000, 1999, 2000, 2001, 30000, 30500, 31000},
          r \in {"resolves", "rejects"},
          n \in {0, 2}}
  /\ call = [op |-> "none"]
  /\ phase = "ready"
  /\ session = [token |-> 0, valid |-> {}, logins |-> 0]

\* handleExploreSchemaTablesAdvanced up to Promise.race: getDirectClient,
\* whose throw on a proxy handle is caught, then the timer is set and the
\* introspection started.
BeginExplore ==
  /\ phase = "ready"
  /\ LET g == ServerGetConnection
     IN  /\ connections' = g.connections
         /\ handles' = g.handles
         /\ createdSince' =
              [createdSince EXCEPT ![inp.args.database_id] =
                 @ + Len(g.handles) - Len(handles)]
         /\ IF g.handles[g.returned].type # "direct"
            THEN /\ call' = Caught([error |-> "DirectRequired"], 0)
                 /\ phase' = "done"
            ELSE /\ call' = [op |-> "race",
                             timeoutMs |-> TimeoutSeconds(inp.args) * 1000]
                 /\ phase' = "racing"
  /\ UNCHANGED <<schema, inp, session>>

\* The introspection settles before the timer has fired: its tables are
\* formatted and returned, or its error is caught.
OperationSettles ==
  /\ phase = "racing"
  /\ inp.env.duration # -1
  /\ inp.env.duration <= call.timeoutMs
  /\ call' = IF inp.env.result = "resolves"
             THEN [response |-> "tables", thrown |-> FALSE,
                   found |-> inp.env.tables,
                   limit |-> IF Has(inp.args, "limit") THEN inp.args.limit ELSE 10,
                   elapsed |-> inp.env.duration]
             ELSE Caught([error |-> "QueryError"], inp.env.duration)
  /\ phase' = "done"
  /\ UNCHANGED <<connections, handles, createdSince, schema, inp, session>>

\* The timer fires before the introspection has settled: the rejection
\* `Operation timeout after ${args.timeout_seconds || 30} seconds` is caught.
TimerFires ==
  /\ phase = "racing"
  /\ inp.env.duration = -1 \/ inp.env.duration >= call.timeoutMs
  /\ call' = Caught([error |-> "Timeout", seconds |-> TimeoutSeconds(inp.args)],
                   call.timeoutMs)
  /\ phase' = "done"
  /\ UNCHANGED <<connections, handles, createdSince, schema, inp, session>>

NextExplore == BeginExplore \/ OperationSettles \/ TimerFires

SpecExplore == InitExplore /\ [][NextExplore]_vars

\* C22: the timeout of db_schema_analyze. On a direct handle the
\* introspection races a timer of timeout_seconds seconds, 30 when the
\* argument is absent (or 0). When the timer fires first the call ends with
\* the failure content that carries the timeout message; when the
\* introspection finishes first its tables are returned (its error, when it
\* rejects, is reported in the failure content); in every case, a proxy
\* handle included, the handler returns a content and never throws.
C22_TimeoutRace ==
  phase = "done" /\ inp.tool = "db_schema_analyze" =>
    LET seconds == IF Has(inp.args, "timeout_seconds") /\ inp.args.timeout_seconds > 0
                   THEN inp.args.timeout_seconds ELSE 30
        duration == inp.env.duration
        timedOut == /\ call.response = "failed"
                    /\ call.message = [error |-> "Timeout", seconds |-> seconds]
                    /\ call.elapsed = seconds * 1000
        finished == /\ call.elapsed = duration
                    /\ IF inp.env.result = "resolves"
                       THEN call.response = "tables" /\ call.found = inp.env.tables
                       ELSE call.response = "failed" /\ call.message = [error |-> "QueryError"]
    IN  /\ ~call.thrown
        /\ call.response \in {"tables", "failed"}
        /\ IF handles[Len(handles)].type # "direct"
           THEN call.response = "failed" /\ call.message = [error |-> "DirectRequired"]
           ELSE CASE duration = -1 \/ duration > seconds * 1000 -> timedOut
                  [] duration = seconds * 1000 -> timedOut \/ finished
                  [] OTHER -> finished

\* The introspection never settles and timeout_seconds is absent: after
\* 30 seconds the failure content with the timeout message.
C22_Witness ==
  /\ phase = "done"
  /\ inp.tool = "db_schema_analyze"
  /\ ~Has(inp.args, "timeout_seconds")
  /\ inp.env.duration = -1
  /\ call.response = "failed"
  /\ call.message = [error |-> "Timeout", seconds |-> 30]
  /\ call.elapsed = 30000

====
